---- MODULE Spec2Model ----
(***************************************************************************)
(* Seed Phrase Shield (byteblox-io/btc-mnemonic-encryptor): the front end  *)
(* of a Tauri application that validates, formats, encrypts and decrypts   *)
(* BIP39 seed phrases.  A text is a sequence of characters, a character a  *)
(* one-character string, a byte a number in 0..255.                        *)
(***************************************************************************)
EXTENDS Integers, Sequences, FiniteSets, TLC

(***************************************************************************)
(* Characters, as the JavaScript regular expressions of the source class   *)
(* them (no u flag: \w is [A-Za-z0-9_], \s is white space, \W the rest,    *)
(* non-ASCII letters included).                                            *)
(***************************************************************************)
LowerLetters ==
    {"a", "b", "c", "d", "e", "i", "l", "m", "n", "o", "p", "s", "t", "u", "w", "y"}

UpperLetters == {"A", "C", "D", "M", "T", "W"}

Digits == {"7"}

WhiteSpace == {" ", "\n"}

Punctuation == {"-", "!"}

\* A non-ASCII capital letter and its lower case (E acute), named by code point.
NonAsciiUpper == "U+00C9"

NonAsciiLower == "U+00E9"

Chars ==
    LowerLetters \cup UpperLetters \cup Digits \cup WhiteSpace \cup Punctuation
        \cup {"_", NonAsciiUpper, NonAsciiLower}

\* \w
IsWordChar(c) == c \in LowerLetters \cup UpperLetters \cup Digits \cup {"_"}

\* \s
IsSpace(c) == c \in WhiteSpace

\* String.prototype.toLowerCase, one character
lowerChar(c) ==
    CASE c = "A" -> "a"
      [] c = "C" -> "c"
      [] c = "D" -> "d"
      [] c = "T" -> "t"
      [] c = "M" -> "m"
      [] c = "W" -> "w"
      [] c = NonAsciiUpper -> NonAsciiLower
      [] OTHER -> c

toLowerCase(s) == [i \in 1..Len(s) |-> lowerChar(s[i])]

RECURSIVE trimStart(_)
trimStart(s) ==
    IF s # <<>> /\ IsSpace(Head(s)) THEN trimStart(Tail(s)) ELSE s

RECURSIVE trimEnd(_)
trimEnd(s) ==
    IF s # <<>> /\ IsSpace(s[Len(s)]) THEN trimEnd(SubSeq(s, 1, Len(s) - 1)) ELSE s

\* String.prototype.trim
trim(s) == trimEnd(trimStart(s))

\* The maximal runs of characters other than white space in s[lo..hi], in
\* order; the two halves of the range are split apart and a run that crosses
\* the middle is joined again.
joinPieces(left, right, crossing) ==
    IF crossing
    THEN SubSeq(left, 1, Len(left) - 1) \o <<left[Len(left)] \o Head(right)>> \o Tail(right)
    ELSE left \o right

RECURSIVE piecesOf(_, _, _)
piecesOf(s, lo, hi) ==
    IF lo > hi THEN <<>>
    ELSE IF lo = hi THEN (IF IsSpace(s[lo]) THEN <<>> ELSE << <<s[lo]>> >>)
    ELSE joinPieces(piecesOf(s, lo, (lo + hi) \div 2),
                    piecesOf(s, (lo + hi) \div 2 + 1, hi),
                    ~IsSpace(s[(lo + hi) \div 2]) /\ ~IsSpace(s[(lo + hi) \div 2 + 1]))

\* s.split(/\s+/): the pieces between the runs of white space; a piece is
\* empty only where s starts or ends with white space, or is empty itself.
splitWhitespace(s) ==
    IF s = <<>> THEN << <<>> >>
    ELSE (IF IsSpace(s[1]) THEN << <<>> >> ELSE <<>>) \o piecesOf(s, 1, Len(s))
             \o (IF IsSpace(s[Len(s)]) THEN << <<>> >> ELSE <<>>)

\* Array.prototype.filter
filterSeq(xs, keep(_)) == SelectSeq(xs, keep)

nonEmptyWord(w) == Len(w) > 0

\* seedPhrase.split(/\s+/).filter(word => word.length > 0)
splitWords(s) == filterSeq(splitWhitespace(s), nonEmptyWord)

\* Array.prototype.includes
includes(xs, x) == \E i \in 1..Len(xs) : xs[i] = x

\* s.replace(/[\W_]+/g, ' '): every run of characters that are not letters or
\* digits becomes one space.
isSeparatorChar(c) == ~IsWordChar(c) \/ c = "_"

replaceRuns(s, inRun(_)) ==
    LET out[i \in 0..Len(s)] ==
            IF i = 0 THEN <<>>
            ELSE IF ~inRun(s[i]) THEN Append(out[i - 1], s[i])
            ELSE IF i > 1 /\ inRun(s[i - 1]) THEN out[i - 1]
            ELSE Append(out[i - 1], " ")
    IN  out[Len(s)]

\* s.replace(/[^\w\s]/g, ' '): every character that is neither a word
\* character nor white space becomes a space, one for one.
notWordNorSpace(c) == ~IsWordChar(c) /\ ~IsSpace(c)

replaceEach(s, hit(_)) == [i \in 1..Len(s) |-> IF hit(s[i]) THEN " " ELSE s[i]]

(***************************************************************************)
(* Seed phrase formatting.                                                 *)
(***************************************************************************)
\* A formatting that keeps the case of the letters.
formatKeepingCase(seedPhrase) ==
    IF seedPhrase = <<>> THEN <<>>
    ELSE trim(replaceRuns(replaceRuns(seedPhrase, isSeparatorChar), IsSpace))

\* utils/validation.js, formatSeedPhrase
formatSeedPhrase(seedPhrase) ==
    IF seedPhrase = <<>> THEN <<>>
    ELSE trim(replaceRuns(replaceRuns(toLowerCase(seedPhrase), isSeparatorChar),
                          IsSpace))

\* The basic formatting of the earlier formatMnemonic, applied to the trimmed
\* field value.
formatMnemonicBasic(mnemonic) ==
    trim(replaceRuns(replaceEach(toLowerCase(mnemonic), notWordNorSpace), IsSpace))

\* The format_mnemonic_comprehensive command of the back end, whose code is not
\* part of the sources: the normal form the specification gives (lower case,
\* every run of non-word characters one space, trimmed).
isNotWordChar(c) == ~IsWordChar(c)

format_mnemonic_comprehensive(mnemonic) ==
    trim(replaceRuns(toLowerCase(mnemonic), isNotWordChar))

(***************************************************************************)
(* Seed phrase validation.  A word list is window.bip39Words: undefined    *)
(* until a fetch has stored an array, which may be empty.  A result is     *)
(* {isValid, message}; the message is kept as the template that built it   *)
(* (kind) and the values put into it (count, words, more).                 *)
(***************************************************************************)
AllowedWordCounts == {12, 15, 18, 21, 24}

\* The number of invalid words an error message of validateSeedPhraseStructure
\* spells out.
ShownInvalidWords == 3

Undefined == [defined |-> FALSE, words |-> <<>>]

Loaded(words) == [defined |-> TRUE, words |-> words]

Result(isValid, kind, count, words, more) ==
    [isValid |-> isValid, kind |-> kind, count |-> count, words |-> words,
     more |-> more]

NoResult == Result(FALSE, "None", 0, <<>>, 0)

\* A filter that compares the words as they were typed.
invalidWordsExact(words, list) ==
    LET notListed(w) == ~includes(list, w)
    IN  filterSeq(words, notListed)

\* words.filter(word => !list.includes(word.toLowerCase()))
invalidWordsOf(words, list) ==
    LET notListed(w) == ~includes(list, toLowerCase(w))
    IN  filterSeq(words, notListed)

\* !window.bip39Words || window.bip39Words.length === 0
wordlistMissing(bip39) == ~bip39.defined \/ Len(bip39.words) = 0

\* A validation that looks at the word list before it counts the words.
validateListFirst(seedPhrase, bip39) ==
    LET words == splitWords(seedPhrase)
        wordCount == Len(words)
    IN  IF seedPhrase = <<>> THEN Result(FALSE, "NoSeedPhrase", 0, <<>>, 0)
        ELSE IF wordlistMissing(bip39)
             THEN Result(FALSE, "WordlistLoading", wordCount, <<>>, 0)
        ELSE IF wordCount \notin AllowedWordCounts
             THEN Result(FALSE, "InvalidWordCount", wordCount, <<>>, 0)
        ELSE Result(invalidWordsOf(words, bip39.words) = <<>>, "Valid", wordCount,
                    <<>>, 0)

\* A validation that names the first invalid word only.
validateNamingFirst(seedPhrase, bip39) ==
    LET words == splitWords(seedPhrase)
        wordCount == Len(words)
        invalidWords == invalidWordsOf(words, bip39.words)
    IN  IF seedPhrase = <<>> THEN Result(FALSE, "NoSeedPhrase", 0, <<>>, 0)
        ELSE IF wordCount \notin AllowedWordCounts
             THEN Result(FALSE, "InvalidWordCount", wordCount, <<>>, 0)
        ELSE IF wordlistMissing(bip39)
             THEN Result(FALSE, "WordlistLoading", wordCount, <<>>, 0)
        ELSE IF Len(invalidWords) > 0
             THEN Result(FALSE, "InvalidWords", wordCount, <<invalidWords[1]>>,
                         Len(invalidWords) - 1)
        ELSE Result(TRUE, "Valid", wordCount, <<>>, 0)

\* A validation that is switched off while the word list is missing.
validateWithoutList(seedPhrase, bip39) ==
    LET words == splitWords(seedPhrase)
        wordCount == Len(words)
    IN  IF seedPhrase = <<>> THEN Result(FALSE, "NoSeedPhrase", 0, <<>>, 0)
        ELSE IF wordCount \notin AllowedWordCounts
             THEN Result(FALSE, "InvalidWordCount", wordCount, <<>>, 0)
        ELSE Result(wordlistMissing(bip39)
                        \/ invalidWordsOf(words, bip39.words) = <<>>,
                    "Valid", wordCount, <<>>, 0)

\* utils/validation.js, validateSeedPhraseStructure
validateSeedPhraseStructure(seedPhrase, bip39) ==
    LET words == splitWords(seedPhrase)
        wordCount == Len(words)
        invalidWords == invalidWordsOf(words, bip39.words)
    IN  IF seedPhrase = <<>> THEN Result(FALSE, "NoSeedPhrase", 0, <<>>, 0)
        ELSE IF wordCount \notin AllowedWordCounts
             THEN Result(FALSE, "InvalidWordCount", wordCount, <<>>, 0)
        ELSE IF wordlistMissing(bip39)
             THEN Result(FALSE, "WordlistLoading", wordCount, <<>>, 0)
        ELSE IF Len(invalidWords) > 0
             THEN Result(FALSE, "InvalidWords", wordCount,
                         SubSeq(invalidWords, 1,
                                IF Len(invalidWords) > ShownInvalidWords
                                THEN ShownInvalidWords ELSE Len(invalidWords)),
                         IF Len(invalidWords) > ShownInvalidWords
                         THEN Len(invalidWords) - ShownInvalidWords ELSE 0)
        ELSE Result(TRUE, "Valid", wordCount, <<>>, 0)

\* The earlier validateMnemonic, from its word split on: the verdict it shows
\* for a trimmed, non-empty field value.  backend is the outcome of the
\* validate_btc_mnemonic call: "none" (no Tauri API), "throws", "valid" or
\* "invalid".
validateMnemonic(mnemonic, list, backend) ==
    LET words == splitWords(mnemonic)
        wordCount == Len(words)
        invalidWords == invalidWordsOf(words, list)
    IN  IF wordCount \notin AllowedWordCounts
        THEN Result(FALSE, "InvalidWordCount", wordCount, <<>>, 0)
        ELSE IF Len(invalidWords) > 0
             THEN Result(FALSE, "InvalidWords", wordCount, invalidWords, 0)
        ELSE IF backend \in {"none", "throws"}
             THEN Result(TRUE, "BasicValidationPassed", wordCount, <<>>, 0)
        ELSE Result(backend = "valid", "Backend", wordCount, <<>>, 0)

(***************************************************************************)
(* The texts the model types.                                              *)
(***************************************************************************)
\* Three-letter words: two of the BIP39 list, one of them capitalised as
\* well, and one that the list does not hold.
act == <<"a", "c", "t">>

add == <<"a", "d", "d">>

Act == <<"A", "c", "t">>

tad == <<"t", "a", "d">>

\* The canonical list, cut to the words the model types.
Bip39Excerpt == <<act, add>>

TypedWords == {act, Act, tad}

\* Only the first OddZone words of a field are chosen freely; the words pasted
\* after them are all act.
OddZone == 4

\* How many words a paste appends.
PasteCounts == {8, 14, 20, 21}

\* White space typed before the first word or after the last one.
MaxExtraSpaces == 1

\* Pending 2-second validation retries.
MaxPendingRetries == 1

\* The characters typed, one at a time, into a field that is then formatted.
FormatChars == {"a", "T", "_", " ", "\n", "-", NonAsciiUpper}

MaxFormatLen == 4

\* The separators between pasted words: a space, or a line break and a space.
PasteSeparators == {<<" ">>, <<"\n", " ">>}

\* k times the separator sep and the word w
repeatWord(w, k, sep) ==
    LET block == sep \o w
    IN  [i \in 1..k * Len(block) |-> block[((i - 1) % Len(block)) + 1]]

endsWithSpace(s) == s # <<>> /\ IsSpace(s[Len(s)])

\* The word appended to a field, after a space if the field needs one.
appendWord(s, w) == IF s = <<>> \/ endsWithSpace(s) THEN s \o w ELSE s \o <<" ">> \o w

\* The white space a field ends with.
trailingSpaces(s) == Len(s) - Len(trimEnd(s))

\* A password argument of a command: a text, or null.
Password(text) == [isNull |-> FALSE, text |-> text]

NullPassword == [isNull |-> TRUE, text |-> <<>>]

\* The back end puts the empty string in the place of an absent password.
passwordText(password) == IF password.isNull THEN <<>> ELSE password.text

NoMetadata == [present |-> FALSE, label |-> <<>>, wallet_type |-> ""]

\* The arguments of an encryption command.
EncryptRequest(command, seedPhrase, passphrase, password, method, iterations, metadata) ==
    [command |-> command, seedPhrase |-> seedPhrase, passphrase |-> passphrase,
     password |-> password, key_derivation_method |-> method,
     iterations |-> iterations, wallet_metadata |-> metadata]

\* The arguments of a decryption command.
DecryptRequest(command, encryptedContent, passphrase, password) ==
    [command |-> command, encrypted_content |-> encryptedContent,
     passphrase |-> passphrase, password |-> password]

NoEncryptRequest ==
    EncryptRequest("none", <<>>, <<>>, Password(<<>>), "", 0, NoMetadata)

NoDecryptRequest == DecryptRequest("none", <<>>, <<>>, Password(<<>>))

\* Where a text in a field comes from: the command that built the container,
\* the bytes of the container, and whether the text is base64 at all.
Origin(kind, decodes, bytes, request) ==
    [kind |-> kind, decodes |-> decodes, bytes |-> bytes, request |-> request]

NoOrigin == Origin("none", FALSE, <<>>, NoEncryptRequest)

\* The fields of the encryption form besides the seed phrase.
EncryptForm(passphrase1, passphrase2, password1, password2, advanced, method) ==
    [passphrase1 |-> passphrase1, passphrase2 |-> passphrase2,
     password1 |-> password1, password2 |-> password2,
     enableAdvancedCrypto |-> advanced, keyDerivationMethod |-> method]

DecryptForm(content, passphrase, password) ==
    [content |-> content, passphrase |-> passphrase, password |-> password]

NoEncryptCall == [pending |-> FALSE, request |-> NoEncryptRequest]

NoDecryptCall ==
    [pending |-> FALSE, request |-> NoDecryptRequest, origin |-> NoOrigin,
     form |-> DecryptForm(<<>>, <<>>, <<>>)]

NoDecryption ==
    [done |-> FALSE, request |-> NoDecryptRequest, origin |-> NoOrigin,
     form |-> DecryptForm(<<>>, <<>>, <<>>),
     response |-> [ok |-> FALSE, value |-> <<>>, error |-> "none"]]

VARIABLES
    entry,              \* the function that handles the seed phrase field's input event
    seedInput,          \* value of the seed phrase field
    typed,              \* the words typed into it, in order
    windowBip39Words,   \* window.bip39Words
    bip39Fetch,         \* "pending", "loaded" or "failed": the fetch of bip39-words.json
    validationStatus,   \* the validation status box: hidden, and the result it holds
    structureResult,    \* what validateSeedPhraseStructure returned for the field's text
    pendingRetries,     \* validation retries scheduled with setTimeout
    lastFormat,         \* whether the last event formatted the field, and the text it found there
    lastMessage,        \* the last showMessage
    tauriAvailable,     \* tauriAPI.invoke is there
    currentTab,         \* "encrypt" or "decrypt"
    encryptForm,        \* the passphrase, password and option fields of the encrypt tab
    encryptResult,      \* value of the encrypt-result field
    encryptOrigin,      \* where the text of encrypt-result comes from
    encryptCall,        \* the encryption command of performEncryption in flight
    walletCall,         \* the one of performEncryptionWithWalletLabel
    encryptUi,          \* the buttons and the status line of the encrypt tab
    encryptions,        \* how many encryption commands have been sent
    decryptForm,        \* the content, passphrase and password fields of the decrypt tab
    contentOrigin,      \* where the text of decrypt-content comes from
    decryptResult,      \* value of the decrypt-result field
    decryptCall,        \* the decryption command in flight
    decryptUi,          \* the button and the status line of the decrypt tab
    lastDecryption,     \* the decryption that completed last, for the form as it is
    walletDialog,       \* the wallet label dialog: its fields and its filename preview
    currentWalletInfo,  \* window.currentWalletInfo
    suggestedFilename,  \* window.suggestedFilename
    now,                \* what new Date() gives: date and time of day
    keyboardLists,      \* the keyboard module's own bip39Words and effWords
    windowEffWords,     \* window.effWords
    listFetches,        \* the keyboard module's fetches that have not answered yet
    retryCount,         \* retryCount of the keyboard module, and whether its interval runs
    virtualKeyboard,    \* the virtualKeyboard object
    consoleLog,         \* what was written to the console
    windowTauri,        \* window.__TAURI__ is there
    startup,            \* waitForTauri's timers, the time since it ran, appInitialized
    network,            \* the connection, the startup check, the warning, isOfflineMode
    inFlight,           \* how many commands of each kind have been sent and not answered
    buttonText,         \* textContent of the encrypt, wallet and decrypt buttons
    resultFrom,         \* the function that wrote encrypt-result last
    saveOffer,          \* the last save dialog: the default filename it offered, and for what
    clipboardSecuritySettings, \* the settings object: neverAllow, and whether it was ever set
    localStorage,       \* the item clipboardSecuritySettings of localStorage
    clipboardUi,        \* open clipboard warning dialogs, the cleanup timer, the last warning
    clipboard,          \* the system clipboard: what it holds, how often a field was copied
    keyboardTarget      \* the field the virtual keyboard was opened on, its mode and inputText

cryptoVars ==
    <<tauriAvailable, currentTab, encryptForm, encryptResult, encryptOrigin,
      encryptCall, walletCall, encryptUi, encryptions, decryptForm, contentOrigin,
      decryptResult, decryptCall, decryptUi, lastDecryption>>

\* The seed phrase field and all that belongs to its validation.
seedVars ==
    <<entry, seedInput, typed, windowBip39Words, bip39Fetch, validationStatus,
      structureResult, pendingRetries, lastFormat>>

\* The wallet label dialog and the filename it leads to.
walletVars == <<walletDialog, currentWalletInfo, suggestedFilename, now>>

\* The word lists of the keyboard module.
wordListVars == <<keyboardLists, windowEffWords, listFetches, retryCount>>

\* The virtual keyboard and the console.
keyboardVars == <<virtualKeyboard, consoleLog>>

\* The start of the app and its network check.
startupVars == <<windowTauri, startup, network>>

\* The commands in flight and the texts of their buttons.
buttonVars == <<inFlight, buttonText>>

\* Saving the encrypted text.
saveVars == <<resultFrom, saveOffer>>

\* Copying to the clipboard and its settings.
clipboardVars == <<clipboardSecuritySettings, localStorage, clipboardUi, clipboard>>

\* The target of the virtual keyboard.
targetVars == <<keyboardTarget>>

appVars == <<startupVars, buttonVars, saveVars, clipboardVars, targetVars>>

sideVars == <<walletVars, wordListVars, keyboardVars, appVars>>

vars == <<seedVars, lastMessage, cryptoVars, sideVars>>

\* new Date() at the start: the first day, a time of day.
FirstDay == <<"2", "0", "2", "6", "-", "1", "1", "-", "0", "1">>

NextDay == <<"2", "0", "2", "6", "-", "1", "1", "-", "0", "2">>

TimeOfDay == <<"1", "0", ":", "3", "0", ":", "0", "0">>

Clock(date) == [date |-> date, time |-> TimeOfDay]

WalletDialog(copy, open, label, typeSelect, customType, preview, previewedOn) ==
    [copy |-> copy, open |-> open, label |-> label, typeSelect |-> typeSelect,
     customType |-> customType, preview |-> preview, previewedOn |-> previewedOn]

WalletInfo(label, wallet_type) == [label |-> label, wallet_type |-> wallet_type]

\* window.currentWalletInfo before the dialog has set it.
NoWalletInfo == WalletInfo(<<>>, <<>>)

\* No wallet label dialog has been opened.
DialogUntouched ==
    /\ walletDialog = WalletDialog("part_001", FALSE, <<>>, <<>>, <<>>, <<>>, <<>>)
    /\ currentWalletInfo = NoWalletInfo
    /\ suggestedFilename = <<>>
    /\ now = Clock(FirstDay)

KeyboardLists(bip39Words, effWords) == [bip39Words |-> bip39Words, effWords |-> effWords]

ListFetches(bip39, eff) == [bip39 |-> bip39, eff |-> eff]

WordLoadCheck(count, running) == [count |-> count, running |-> running]

\* The keyboard module has not been initialised.
WordListsUntouched ==
    /\ keyboardLists = KeyboardLists(<<>>, <<>>)
    /\ windowEffWords = Undefined
    /\ listFetches = ListFetches(0, 0)
    /\ retryCount = WordLoadCheck(0, FALSE)

VirtualKeyboard(isOpen, words, currentWord, editingWordIndex) ==
    [isOpen |-> isOpen, words |-> words, currentWord |-> currentWord,
     editingWordIndex |-> editingWordIndex]

\* The virtual keyboard is closed and nothing has been logged.
KeyboardUntouched ==
    /\ virtualKeyboard = VirtualKeyboard(FALSE, <<>>, <<>>, -1)
    /\ consoleLog = {}

Startup(elapsed, polledAt, checkInterval, timeoutPending, appInitialized, initialized) ==
    [elapsed |-> elapsed, polledAt |-> polledAt, checkInterval |-> checkInterval,
     timeoutPending |-> timeoutPending, appInitialized |-> appInitialized,
     initialized |-> initialized]

Network(connected, check, warningShown, warned, isOfflineMode) ==
    [connected |-> connected, check |-> check, warningShown |-> warningShown,
     warned |-> warned, isOfflineMode |-> isOfflineMode]

\* waitForTauri has just run: both timers are set, nothing is initialised.
StartupUntouched ==
    /\ windowTauri = FALSE
    /\ startup = Startup(0, 0, TRUE, TRUE, FALSE, 0)
    /\ network = Network(FALSE, "none", FALSE, FALSE, FALSE)

InFlight(encrypt, wallet, decrypt) ==
    [encrypt |-> encrypt, wallet |-> wallet, decrypt |-> decrypt]

ButtonText(encrypt, wallet, decrypt) ==
    [encrypt |-> encrypt, wallet |-> wallet, decrypt |-> decrypt]

\* The texts the buttons have when nothing is in flight.
RestingText ==
    ButtonText("Encrypt Seed Phrase", "Encrypt with Wallet Label", "Decrypt Seed Phrase")

ButtonsUntouched ==
    /\ inFlight = InFlight(0, 0, 0)
    /\ buttonText = RestingText

SaveOffer(made, defaultFilename, offeredFor) ==
    [made |-> made, defaultFilename |-> defaultFilename, offeredFor |-> offeredFor]

\* Nothing has been encrypted and no save dialog has been shown.
SaveUntouched ==
    /\ resultFrom = "none"
    /\ saveOffer = SaveOffer(FALSE, <<>>, "none")

Settings(neverAllow, everSet) == [neverAllow |-> neverAllow, everSet |-> everSet]

Stored(saved, neverAllow) == [saved |-> saved, neverAllow |-> neverAllow]

\* countdowns: timeLeft of every running countdown of the cleanup timer, in the
\* order they were started.
ClipboardUi(copy, dialogs, countdowns, warning) ==
    [copy |-> copy, dialogs |-> dialogs, countdowns |-> countdowns,
     warning |-> warning]

\* age: whole seconds since the content was written; autoClean: whether the
\* copy that wrote it had auto-clear selected.
Clipboard(content, copies, age, autoClean) ==
    [content |-> content, copies |-> copies, age |-> age, autoClean |-> autoClean]

\* The settings are as the module declares them, nothing is stored, no
\* dialog is open.
ClipboardUntouched ==
    /\ clipboardSecuritySettings = Settings(FALSE, FALSE)
    /\ localStorage = Stored(FALSE, FALSE)
    /\ clipboardUi = ClipboardUi("main.js", 0, <<>>, "none")
    /\ clipboard = Clipboard("other", 0, 0, FALSE)

\* copy: which openVirtualKeyboard is in use; keys: whether a key of the
\* keyboard was pressed since it was opened; confirmed: whether it was closed
\* by confirmKeyboardInput.
KeyboardTarget(copy, field, isPasswordMode, inputText, keys, confirmed) ==
    [copy |-> copy, field |-> field, isPasswordMode |-> isPasswordMode,
     inputText |-> inputText, keys |-> keys, confirmed |-> confirmed]

TargetUntouched ==
    keyboardTarget = KeyboardTarget("keyboard.js", "none", FALSE, <<>>, FALSE, FALSE)

AppUntouched ==
    /\ StartupUntouched /\ ButtonsUntouched /\ SaveUntouched /\ ClipboardUntouched
    /\ TargetUntouched

SideUntouched ==
    DialogUntouched /\ WordListsUntouched /\ KeyboardUntouched /\ AppUntouched

EncryptUi(btnDisabled, walletBtnDisabled, saveDisabled, saveLabel, status) ==
    [btnDisabled |-> btnDisabled, walletBtnDisabled |-> walletBtnDisabled,
     saveDisabled |-> saveDisabled, saveLabel |-> saveLabel, status |-> status]

DecryptUi(btnDisabled, status) == [btnDisabled |-> btnDisabled, status |-> status]

\* The two forms as they are when nothing has been entered.
FormsUntouched ==
    /\ tauriAvailable = TRUE
    /\ currentTab = "encrypt"
    /\ encryptForm = EncryptForm(<<>>, <<>>, <<>>, <<>>, FALSE, "")
    /\ encryptResult = <<>>
    /\ encryptOrigin = NoOrigin
    /\ encryptCall = NoEncryptCall
    /\ walletCall = NoEncryptCall
    /\ encryptUi = EncryptUi(TRUE, TRUE, TRUE, "Save to File", "")
    /\ encryptions = 0
    /\ decryptForm = DecryptForm(<<>>, <<>>, <<>>)
    /\ contentOrigin = NoOrigin
    /\ decryptResult = <<>>
    /\ decryptCall = NoDecryptCall
    /\ decryptUi = DecryptUi(TRUE, "")
    /\ lastDecryption = NoDecryption

listVars == <<windowBip39Words, bip39Fetch>>

NoFormat == [done |-> FALSE, originalValue |-> <<>>]

Status(hidden, result) == [hidden |-> hidden, result |-> result]

\* utils/validation.js, validateSeedPhrase: the status box after it ran on a
\* field holding value.
validateSeedPhrase(value, bip39, status) ==
    LET seedPhrase == trim(value)
    IN  IF seedPhrase = <<>> THEN Status(TRUE, status.result)
        ELSE Status(FALSE, validateSeedPhraseStructure(seedPhrase, bip39))

\* Whether validateSeedPhrase schedules its retry.
retryScheduled(value, bip39) ==
    LET seedPhrase == trim(value)
    IN  /\ seedPhrase # <<>>
        /\ wordlistMissing(bip39)
        /\ ~validateSeedPhraseStructure(seedPhrase, bip39).isValid
        /\ Len(splitWhitespace(seedPhrase)) >= 3

\* The earlier validateMnemonic on a field holding value.
validateMnemonicField(value, backend, status) ==
    LET mnemonic == trim(value)
    IN  IF mnemonic = <<>> THEN Status(TRUE, status.result)
        ELSE Status(FALSE, validateMnemonic(mnemonic, Bip39Excerpt, backend))

BackendOutcomes == {"none", "throws", "valid", "invalid"}

\* element.value: the value of a field as it was typed.
elementValue(value) == value

\* getValue: the trimmed value of a field.
getValue(value) == trim(value)

\* validateEncryptForm: isValid
encryptFormValid(seed, form) ==
    LET seedPhrase == getValue(seed)
        passphrase1 == getValue(form.passphrase1)
        passphrase2 == getValue(form.passphrase2)
        password1 == getValue(form.password1)
        password2 == getValue(form.password2)
    IN  /\ seedPhrase # <<>>
        /\ passphrase1 # <<>> /\ passphrase1 = passphrase2
        /\ password1 = <<>> \/ password1 = password2

\* validateEncryptForm: the buttons after it ran.
validateEncryptForm(seed, form, result, ui) ==
    LET isValid == encryptFormValid(seed, form)
    IN  [ui EXCEPT !.btnDisabled = ~isValid,
                   !.walletBtnDisabled = ~isValid,
                   !.saveDisabled = IF getValue(result) = <<>> THEN TRUE ELSE @,
                   !.saveLabel = IF getValue(result) = <<>> THEN "Save to File" ELSE @]

\* validateDecryptForm: the button after it ran.
validateDecryptForm(form, ui) ==
    [ui EXCEPT !.btnDisabled =
                   ~(getValue(form.content) # <<>> /\ getValue(form.passphrase) # <<>>)]

\* validateForms: the form of the tab that is shown is validated again.
validateForms(seed) ==
    /\ encryptUi' = IF currentTab = "encrypt"
                    THEN validateEncryptForm(seed, encryptForm, encryptResult, encryptUi)
                    ELSE encryptUi
    /\ decryptUi' = IF currentTab = "encrypt" THEN decryptUi
                    ELSE validateDecryptForm(decryptForm, decryptUi)

\* The seed phrase field takes a new value and its input event is handled:
\* by validateSeedPhrase and validateForms (main.js), by the earlier
\* validateMnemonic, or by a caller that hands the field's text to
\* validateSeedPhraseStructure as it is.
InputEvent(value, words) ==
    /\ seedInput' = value
    /\ typed' = words
    /\ lastFormat' = NoFormat
    /\ CASE entry = "validateSeedPhrase" ->
              /\ validationStatus' =
                     validateSeedPhrase(value, windowBip39Words, validationStatus)
              /\ pendingRetries' =
                     IF pendingRetries < MaxPendingRetries
                            /\ retryScheduled(value, windowBip39Words)
                     THEN pendingRetries + 1 ELSE pendingRetries
              /\ UNCHANGED structureResult
         [] entry = "validateMnemonic" ->
              /\ \E backend \in BackendOutcomes :
                     validationStatus' =
                         validateMnemonicField(value, backend, validationStatus)
              /\ UNCHANGED <<pendingRetries, structureResult>>
         [] OTHER ->
              /\ structureResult' = validateSeedPhraseStructure(value, windowBip39Words)
              /\ UNCHANGED <<pendingRetries, validationStatus>>
    /\ IF entry = "validateSeedPhrase" THEN validateForms(value)
       ELSE UNCHANGED <<encryptUi, decryptUi>>
    /\ UNCHANGED <<entry, listVars, lastMessage, tauriAvailable, currentTab,
                   encryptForm, encryptResult, encryptOrigin, encryptCall, walletCall,
                   encryptions, decryptForm, contentOrigin, decryptResult, decryptCall,
                   lastDecryption>>

\* The first OddZone words are typed one by one, each after a space.  Words
\* other than act are typed into a field without stray white space.
TypeWord(w) ==
    /\ UNCHANGED sideVars
    /\ Len(typed) < OddZone
    /\ w = act \/ seedInput = trim(seedInput)
    /\ InputEvent(appendWord(seedInput, w), Append(typed, w))

\* Stray white space is typed before the first word or after the pasted ones,
\* into a field that holds no word other than act.
TypeSpace(c) ==
    /\ UNCHANGED sideVars
    /\ typed = <<>> \/ Len(typed) > OddZone
    /\ \A i \in 1..Len(typed) : typed[i] = act
    /\ trailingSpaces(seedInput) < MaxExtraSpaces
    /\ InputEvent(seedInput \o <<c>>, typed)

\* k words are pasted after the typed ones.
PasteWords(k, sep) ==
    /\ UNCHANGED sideVars
    /\ Len(typed) <= OddZone
    /\ InputEvent(IF seedInput = <<>> \/ endsWithSpace(seedInput)
                  THEN seedInput \o SubSeq(repeatWord(act, k, sep), Len(sep) + 1,
                                           k * (Len(sep) + Len(act)))
                  ELSE seedInput \o repeatWord(act, k, sep),
                  typed \o [i \in 1..k |-> act])

ClearInput ==
    /\ UNCHANGED sideVars
    /\ seedInput # <<>>
    /\ InputEvent(<<>>, <<>>)

\* A validation scheduled with setTimeout runs: the retry of
\* validateSeedPhrase, or the validateMnemonic that formatMnemonic schedules.
RetryFires ==
    /\ UNCHANGED sideVars
    /\ pendingRetries > 0
    /\ pendingRetries' = pendingRetries - 1
    /\ IF entry = "validateMnemonic"
       THEN \E backend \in BackendOutcomes :
                validationStatus' =
                    validateMnemonicField(seedInput, backend, validationStatus)
       ELSE validationStatus' =
                Status(FALSE,
                       validateSeedPhraseStructure(trim(seedInput), windowBip39Words))
    /\ UNCHANGED <<entry, seedInput, typed, listVars, structureResult, lastFormat,
                   lastMessage>>
    /\ UNCHANGED cryptoVars

\* main.js: the fetch of bip39-words.json delivers an array.
FetchSucceeds(words) ==
    /\ UNCHANGED sideVars
    /\ entry # "validateMnemonic"
    /\ bip39Fetch = "pending"
    /\ bip39Fetch' = "loaded"
    /\ windowBip39Words' = Loaded(words)
    /\ UNCHANGED <<entry, seedInput, typed, validationStatus, structureResult,
                   pendingRetries, lastFormat, lastMessage>>
    /\ UNCHANGED cryptoVars

\* main.js: the fetch fails; only the module's own bip39Words is reset.
FetchFails ==
    /\ UNCHANGED sideVars
    /\ entry # "validateMnemonic"
    /\ bip39Fetch = "pending"
    /\ bip39Fetch' = "failed"
    /\ UNCHANGED <<entry, seedInput, typed, windowBip39Words, validationStatus,
                   structureResult, pendingRetries, lastFormat, lastMessage>>
    /\ UNCHANGED cryptoVars

\* One character is typed into the seed phrase field.
TypeChar(c) ==
    /\ UNCHANGED sideVars
    /\ Len(seedInput) < MaxFormatLen
    /\ InputEvent(seedInput \o <<c>>, <<>>)

\* main.js, setupEventListeners: the click handler of the format button.
FormatClick ==
    /\ UNCHANGED sideVars
    /\ entry = "validateSeedPhrase"
    /\ trim(seedInput) # <<>>
    /\ LET originalValue == seedInput
           formattedValue == formatSeedPhrase(originalValue)
       IN  IF formattedValue # originalValue
           THEN /\ seedInput' = formattedValue
                /\ validationStatus' =
                       validateSeedPhrase(formattedValue, windowBip39Words,
                                          validationStatus)
                /\ pendingRetries' =
                       IF pendingRetries < MaxPendingRetries
                              /\ retryScheduled(formattedValue, windowBip39Words)
                       THEN pendingRetries + 1 ELSE pendingRetries
                /\ lastMessage' = "Seed phrase formatted successfully"
           ELSE /\ lastMessage' = "Seed phrase is already properly formatted"
                /\ UNCHANGED <<seedInput, validationStatus, pendingRetries>>
    /\ lastFormat' = [done |-> TRUE, originalValue |-> seedInput]
    /\ UNCHANGED <<entry, typed, listVars, structureResult>>
    /\ UNCHANGED cryptoVars

\* The earlier formatMnemonic; backend is the outcome of its
\* format_mnemonic_comprehensive call: "none" (no Tauri API), "throws" or "ok".
formatMnemonic(value, backend) ==
    LET formatted == formatMnemonicBasic(trim(value))
        result == format_mnemonic_comprehensive(formatted)
    IN  IF backend = "ok" /\ result # <<>> THEN result ELSE formatted

FormatMnemonicClick(backend) ==
    /\ UNCHANGED sideVars
    /\ entry = "validateMnemonic"
    /\ trim(seedInput) # <<>>
    /\ seedInput' = formatMnemonic(seedInput, backend)
    /\ lastMessage' = IF backend = "ok" THEN "Seed phrase formatted successfully"
                      ELSE "Basic formatting applied"
    /\ pendingRetries' =
           IF pendingRetries < MaxPendingRetries THEN pendingRetries + 1
           ELSE pendingRetries
    /\ lastFormat' = [done |-> TRUE, originalValue |-> seedInput]
    /\ UNCHANGED <<entry, typed, listVars, validationStatus, structureResult>>
    /\ UNCHANGED cryptoVars

InitFormat ==
    /\ entry \in {"validateSeedPhrase", "validateMnemonic"}
    /\ seedInput = <<>>
    /\ typed = <<>>
    /\ windowBip39Words = Undefined
    /\ bip39Fetch = "pending"
    /\ validationStatus = Status(TRUE, NoResult)
    /\ structureResult = NoResult
    /\ pendingRetries = 0
    /\ lastFormat = NoFormat
    /\ lastMessage = "none"
    /\ FormsUntouched
    /\ SideUntouched

NextFormat ==
    \/ \E c \in FormatChars : TypeChar(c)
    \/ FormatClick
    \/ \E backend \in {"none", "throws", "ok"} : FormatMnemonicClick(backend)
    \/ RetryFires

SpecFormat == InitFormat /\ [][NextFormat]_vars

InitValidation ==
    /\ entry \in {"validateSeedPhrase", "validateMnemonic", "validateSeedPhraseStructure"}
    /\ seedInput = <<>>
    /\ typed = <<>>
    /\ windowBip39Words = Undefined
    /\ bip39Fetch = "pending"
    /\ validationStatus = Status(TRUE, NoResult)
    /\ structureResult = NoResult
    /\ pendingRetries = 0
    /\ lastFormat = NoFormat
    /\ lastMessage = "none"
    /\ FormsUntouched
    /\ SideUntouched

NextValidation ==
    \/ \E w \in TypedWords : TypeWord(w)
    \/ \E c \in WhiteSpace : TypeSpace(c)
    \/ \E k \in PasteCounts, sep \in PasteSeparators : PasteWords(k, sep)
    \/ ClearInput
    \/ RetryFires
    \/ \E words \in {Bip39Excerpt, <<>>} : FetchSucceeds(words)
    \/ FetchFails

SpecValidation == InitValidation /\ [][NextValidation]_vars

(***************************************************************************)
(* Properties of seed phrase validation (SpecValidation).  typed is the    *)
(* sequence of words that were put into the field, so Len(typed) is the    *)
(* number of white-space separated words of the field's text.              *)
(***************************************************************************)
\* The result of the last validation of the field.
lastResult ==
    IF entry = "validateSeedPhraseStructure" THEN structureResult
    ELSE validationStatus.result

\* A result is there: the function was called, or the status box is shown.
resultShown ==
    IF entry = "validateSeedPhraseStructure" THEN structureResult # NoResult
    ELSE ~validationStatus.hidden

\* The result was not computed before the word list arrived.
resultIsCurrent ==
    /\ resultShown
    /\ lastResult.kind = "WordlistLoading" => wordlistMissing(windowBip39Words)

\* The input the validating function received is not empty.
inputNotEmpty ==
    IF entry = "validateSeedPhraseStructure" THEN seedInput # <<>>
    ELSE trim(seedInput) # <<>>

\* The word list the validation reads is there.
listLoaded == entry = "validateMnemonic" \/ ~wordlistMissing(windowBip39Words)

foldsToListed(w) == includes(Bip39Excerpt, toLowerCase(w))

isNotListed(w) == ~foldsToListed(w)

\* The typed words that are not BIP39 words, whatever their case.
typedInvalid == SelectSeq(typed, isNotListed)

firstOf(xs, n) == SubSeq(xs, 1, IF Len(xs) > n THEN n ELSE Len(xs))

\* C3: the word count is checked first.  For every non-empty input whose number
\* of white-space separated words is not 12, 15, 18, 21 or 24 the result is
\* invalid and carries that number, whatever the word list holds (or whether
\* it is loaded at all) and whatever the words are.
C3_WordCountCheckedFirst ==
    (inputNotEmpty /\ Len(typed) \notin AllowedWordCounts)
        => /\ resultShown
           /\ lastResult = Result(FALSE, "InvalidWordCount", Len(typed), <<>>, 0)

\* Sixteen words, the first of them not a BIP39 word, with the list loaded: the
\* result speaks of the count only.
C3_Witness ==
    /\ entry = "validateSeedPhrase"
    /\ Len(typed) = 16
    /\ typed[1] = tad
    /\ windowBip39Words = Loaded(Bip39Excerpt)
    /\ lastResult = Result(FALSE, "InvalidWordCount", 16, <<>>, 0)

\* C4 (as the code has it): with an allowed word count and the list loaded, an
\* input with invalid words is invalid; validateSeedPhraseStructure names the
\* first three invalid words and counts the others ("+N more"), the earlier
\* validateMnemonic names them all.
C4_InvalidWordsNamedUpToThree ==
    (inputNotEmpty /\ Len(typed) \in AllowedWordCounts /\ listLoaded
        /\ resultIsCurrent /\ typedInvalid # <<>>)
        => lastResult =
               IF entry = "validateMnemonic"
               THEN Result(FALSE, "InvalidWords", Len(typed), typedInvalid, 0)
               ELSE Result(FALSE, "InvalidWords", Len(typed),
                           firstOf(typedInvalid, ShownInvalidWords),
                           IF Len(typedInvalid) > ShownInvalidWords
                           THEN Len(typedInvalid) - ShownInvalidWords ELSE 0)

\* Twelve words, four of them invalid: three are named, one is counted.
C4_Witness ==
    /\ entry = "validateSeedPhrase"
    /\ Len(typed) = 12
    /\ Len(typedInvalid) = 4
    /\ lastResult = Result(FALSE, "InvalidWords", 12, <<tad, tad, tad>>, 1)

\* C4 as stated: the invalid result names every invalid word of the input.
C4_AllInvalidWordsNamed ==
    (inputNotEmpty /\ Len(typed) \in AllowedWordCounts /\ listLoaded
        /\ resultIsCurrent /\ typedInvalid # <<>>)
        => (~lastResult.isValid /\ lastResult.words = typedInvalid)

\* Every typed word is a BIP39 word once it is put in lower case.
typedWellFormedFolded ==
    /\ Len(typed) \in AllowedWordCounts
    /\ \A i \in 1..Len(typed) : foldsToListed(typed[i])

\* Every typed word is a word of the canonical list.
typedWellFormed ==
    /\ Len(typed) \in AllowedWordCounts
    /\ \A i \in 1..Len(typed) : includes(Bip39Excerpt, typed[i])

\* C5 (as the code has it): validateSeedPhraseStructure reports valid exactly
\* when the word list is loaded, the input has 12, 15, 18, 21 or 24 words and
\* every word, put in lower case, is in the list.  The earlier validateMnemonic
\* reports valid only for such an input, and for every such input unless its
\* back end rejects it.
C5_ValidIffWellFormedIgnoringCase ==
    (resultIsCurrent /\ inputNotEmpty)
        => IF entry = "validateMnemonic"
           THEN /\ lastResult.isValid => typedWellFormedFolded
                /\ (typedWellFormedFolded /\ lastResult.kind # "Backend")
                       => lastResult.isValid
           ELSE lastResult.isValid <=>
                    (typedWellFormedFolded /\ ~wordlistMissing(windowBip39Words))

\* Twelve words, one of them capitalised, are reported valid.
C5_Witness ==
    /\ entry = "validateSeedPhraseStructure"
    /\ Len(typed) = 12
    /\ \E i \in 1..Len(typed) : typed[i] = Act
    /\ lastResult = Result(TRUE, "Valid", 12, <<>>, 0)

\* C5 as stated, for a validation that has its word list: valid if and only if
\* the input has an allowed number of words and every word is in the canonical
\* list.
C5_ValidIffWellFormed ==
    (resultIsCurrent /\ inputNotEmpty /\ entry # "validateMnemonic"
        /\ ~wordlistMissing(windowBip39Words))
        => (lastResult.isValid <=> typedWellFormed)

\* C6: while window.bip39Words is missing or empty no input is reported valid,
\* and an input with an allowed word count is answered with the notice that
\* the list is not there; a valid verdict always rests on a check of every
\* word against the list.
C6_NeverValidWithoutWordlist ==
    /\ (entry # "validateMnemonic" /\ wordlistMissing(windowBip39Words))
           => /\ ~structureResult.isValid
              /\ ~validationStatus.result.isValid
              /\ (resultShown /\ inputNotEmpty /\ Len(typed) \in AllowedWordCounts)
                     => lastResult =
                            Result(FALSE, "WordlistLoading", Len(typed), <<>>, 0)
    /\ (lastResult.isValid /\ inputNotEmpty)
           => \A i \in 1..Len(typed) : foldsToListed(typed[i])

\* Twelve BIP39 words, validated after the fetch has delivered an empty list.
C6_Witness ==
    /\ entry = "validateSeedPhrase"
    /\ windowBip39Words = Loaded(<<>>)
    /\ Len(typed) = 12
    /\ typedInvalid = <<>>
    /\ lastResult = Result(FALSE, "WordlistLoading", 12, <<>>, 0)

(***************************************************************************)
(* Properties of formatting (SpecFormat).                                  *)
(***************************************************************************)
\* Only lower-case letters, digits and underscores in tokens that single
\* spaces separate; no space at either end.
isNormalForm(s) ==
    /\ \A i \in 1..Len(s) : s[i] \in LowerLetters \cup Digits \cup {"_", " "}
    /\ s # <<>> => (s[1] # " " /\ s[Len(s)] # " ")
    /\ \A i \in 1..(Len(s) - 1) : ~(s[i] = " " /\ s[i + 1] = " ")

\* The field's text formatted once more by the function that formatted it.
formattedAgain ==
    IF entry = "validateMnemonic"
    THEN {formatMnemonic(seedInput, backend) : backend \in {"none", "throws", "ok"}}
    ELSE {formatSeedPhrase(seedInput)}

\* Lower case, every run of characters of the class isSeparator one space,
\* trimmed.
normalised(text, isSeparator(_)) == trim(replaceRuns(toLowerCase(text), isSeparator))

sequenceOf(f) == SubSeq(f, 1, Len(f))

Base64Alphabet ==
    <<"A", "B", "C", "D", "E", "F", "G", "H", "I", "J", "K", "L", "M",
      "N", "O", "P", "Q", "R", "S", "T", "U", "V", "W", "X", "Y", "Z",
      "a", "b", "c", "d", "e", "f", "g", "h", "i", "j", "k", "l", "m",
      "n", "o", "p", "q", "r", "s", "t", "u", "v", "w", "x", "y", "z",
      "0", "1", "2", "3", "4", "5", "6", "7", "8", "9", "+", "/">>

\* The six bits each character of the alphabet stands for.
Base64Sextets ==
    [c \in {Base64Alphabet[i] : i \in 1..64} |->
        (CHOOSE i \in 1..64 : Base64Alphabet[i] = c) - 1]

isBase64Char(c) == c \in DOMAIN Base64Sextets

sextetOf(c) == Base64Sextets[c]

\* The characters atob drops before it decodes: ASCII white space.
isAsciiWhitespace(c) == c \in {" ", "\n", "\t", "\r", "\f"}

isNotAsciiWhitespace(c) == ~isAsciiWhitespace(c)

\* The padding atob removes: one or two "=" at the end of a text whose length
\* is a multiple of four.
withoutPadding(s) ==
    IF Len(s) % 4 = 0 /\ Len(s) > 0 /\ s[Len(s)] = "="
    THEN IF s[Len(s) - 1] = "=" THEN SubSeq(s, 1, Len(s) - 2)
         ELSE SubSeq(s, 1, Len(s) - 1)
    ELSE s

\* The bytes that n characters of base64 hold.
decodedLength(n) == (n \div 4) * 3 + (IF n % 4 = 0 THEN 0 ELSE (n % 4) - 1)

sextetAt(sextets, i) == IF i <= Len(sextets) THEN sextets[i] ELSE 0

\* The 24 bits of the g-th group of four characters, g from 0.
sextetGroup(sextets, g) ==
    sextetAt(sextets, 4 * g + 1) * 262144 + sextetAt(sextets, 4 * g + 2) * 4096
        + sextetAt(sextets, 4 * g + 3) * 64 + sextetAt(sextets, 4 * g + 4)

\* The j-th decoded byte.
decodedByte(sextets, j) ==
    (sextetGroup(sextets, (j - 1) \div 3)
         \div (IF (j - 1) % 3 = 0 THEN 65536 ELSE IF (j - 1) % 3 = 1 THEN 256 ELSE 1))
        % 256

\* The decoding of a text without white space and padding.
decodeStripped(s) ==
    IF Len(s) % 4 = 1 \/ \E i \in 1..Len(s) : ~isBase64Char(s[i])
    THEN [ok |-> FALSE, data |-> <<>>]
    ELSE LET sextets == sequenceOf([i \in 1..Len(s) |-> sextetOf(s[i])])
         IN  [ok |-> TRUE,
              data |-> sequenceOf([j \in 1..decodedLength(Len(s)) |->
                                      decodedByte(sextets, j)])]

\* window.atob: the decoded bytes, or the failure that makes atob throw.
atob(text) == decodeStripped(withoutPadding(SelectSeq(text, isNotAsciiWhitespace)))

\* The padded base64 text of a sequence of bytes.
encodeBase64(bytes) ==
    LET n == Len(bytes)
        byteAt(i) == IF i <= n THEN bytes[i] ELSE 0
        group(g) == byteAt(3 * g + 1) * 65536 + byteAt(3 * g + 2) * 256
                        + byteAt(3 * g + 3)
        char(i) == LET g == (i - 1) \div 4
                       k == (i - 1) % 4
                   IN  IF 3 * g + k > n THEN "="
                       ELSE Base64Alphabet[
                                ((group(g) \div (IF k = 0 THEN 262144
                                                 ELSE IF k = 1 THEN 4096
                                                 ELSE IF k = 2 THEN 64 ELSE 1))
                                    % 64) + 1]
    IN  sequenceOf([i \in 1..4 * ((n + 2) \div 3) |-> char(i)])

\* The back end's decoder: it takes the padded text the encoder writes.
canonical(decoded, text) ==
    IF decoded.ok /\ encodeBase64(decoded.data) = text THEN decoded
    ELSE [ok |-> FALSE, data |-> <<>>]

decodeBase64(text) == canonical(atob(text), text)

\* 'AESADV01' as character codes.
MagicHeader == <<65, 69, 83, 65, 68, 86, 48, 49>>

\* A sniff that finds no content advanced.
neverAdvanced(encryptedContent) == FALSE

\* A sniff that decodes as the back end does, and so finds no text advanced
\* that holds white space or lacks its padding.
\* data.length >= 8 && data.substring(0, 8) === 'AESADV01', for a decoding
\* that did not throw.
startsWithMagic(decoded) ==
    /\ decoded.ok
    /\ Len(decoded.data) >= 8
    /\ SubSeq(decoded.data, 1, 8) = MagicHeader

sniffsStrictBase64(encryptedContent) == startsWithMagic(decodeBase64(encryptedContent))

\* performDecryption: the sniff of the format.
isAdvancedFormat(encryptedContent) == startsWithMagic(atob(encryptedContent))

(***************************************************************************)
(* The back end (the Tauri commands).  Its code is not among the sources;  *)
(* it is written here from the specification: the two container layouts,   *)
(* a key derived from passphrase, password and salt, authenticated         *)
(* encryption under a fresh nonce, base64 text out and in.  The key        *)
(* derivation, the cipher and the hash are small stand-ins with the        *)
(* properties the specification relies on: decryption inverts encryption   *)
(* under the same key and nonce, and the tag depends on every byte of the  *)
(* ciphertext and of the metadata.                                         *)
(***************************************************************************)
\* The characters with the codes 32 to 126, in order; the quotation mark,
\* the backslash and the grave accent are named by code point.
AsciiPrintable ==
    <<" ", "!", "U+0022", "#", "$", "%", "&", "'", "(", ")", "*", "+",
      ",", "-", ".", "/", "0", "1", "2", "3", "4", "5", "6", "7",
      "8", "9", ":", ";", "<", "=", ">", "?", "@", "A", "B", "C",
      "D", "E", "F", "G", "H", "I", "J", "K", "L", "M", "N", "O",
      "P", "Q", "R", "S", "T", "U", "V", "W", "X", "Y", "Z", "[",
      "U+005C", "]", "^", "_", "U+0060", "a", "b", "c", "d", "e", "f", "g",
      "h", "i", "j", "k", "l", "m", "n", "o", "p", "q", "r", "s",
      "t", "u", "v", "w", "x", "y", "z", "{", "|", "}", "~">>

\* The code of each of these characters.
AsciiCodes ==
    [c \in {AsciiPrintable[i] : i \in 1..95} |->
        31 + (CHOOSE i \in 1..95 : AsciiPrintable[i] = c)]

charCode(c) == IF c = "\n" THEN 10 ELSE AsciiCodes[c]

fromCharCode(b) ==
    IF b = 10 THEN "\n" ELSE IF b >= 32 /\ b <= 126 THEN AsciiPrintable[b - 31]
    ELSE "U+FFFD"

utf8Encode(text) == sequenceOf([i \in 1..Len(text) |-> charCode(text[i])])

utf8Decode(bytes) == sequenceOf([i \in 1..Len(bytes) |-> fromCharCode(bytes[i])])

SaltLength == 16

NonceLength == 12

TagLength == 16

HashLength == 32

KeyLength == 32

FormatVersion == 1

\* The length of the magic token.
MagicLength == 8

\* The sum, modulo 256, of the bytes lo..hi, the i-th weighted with the odd
\* number 2 * (i + w) + 1: it changes whenever one byte changes.
RECURSIVE weightedSum(_, _, _, _)
weightedSum(bytes, lo, hi, w) ==
    IF lo > hi THEN 0
    ELSE IF lo = hi THEN (bytes[lo] * (2 * (lo + w) + 1)) % 256
    ELSE (weightedSum(bytes, lo, (lo + hi) \div 2, w)
              + weightedSum(bytes, (lo + hi) \div 2 + 1, hi, w)) % 256

digest(bytes, w) == weightedSum(bytes, 1, Len(bytes), w)

\* The key derivation: stands for PBKDF2-HMAC-SHA256.
deriveKey(passphrase, password, salt, iterations) ==
    LET mixed == 3 * digest(utf8Encode(passphrase), 0)
                     + 5 * digest(utf8Encode(password), 1) + digest(salt, 2)
                     + iterations + Len(passphrase) + 2 * Len(password)
    IN  sequenceOf([j \in 1..KeyLength |-> (mixed + j * j) % 256])

keystream(key, nonce, i) ==
    key[((i - 1) % KeyLength) + 1] + nonce[((i - 1) % NonceLength) + 1]

\* The authenticated cipher: stands for AES-256-GCM.
authTag(key, nonce, ciphertext, aad) ==
    LET mixed == digest(ciphertext, 0) + 3 * digest(aad, 1) + Len(ciphertext)
                     + Len(aad)
    IN  sequenceOf([j \in 1..TagLength |->
                       (key[j] + 7 * key[j + TagLength]
                            + nonce[((j - 1) % NonceLength) + 1] + mixed) % 256])

cipherEncrypt(key, nonce, plaintext, aad) ==
    LET ciphertext == sequenceOf([i \in 1..Len(plaintext) |->
                                     (plaintext[i] + keystream(key, nonce, i)) % 256])
    IN  [ciphertext |-> ciphertext, authTag |-> authTag(key, nonce, ciphertext, aad)]

cipherDecrypt(key, nonce, ciphertext, tag, aad) ==
    IF tag # authTag(key, nonce, ciphertext, aad)
    THEN [ok |-> FALSE, plaintext |-> <<>>]
    ELSE [ok |-> TRUE,
          plaintext |-> sequenceOf([i \in 1..Len(ciphertext) |->
                                       (ciphertext[i] + 512 - keystream(key, nonce, i))
                                           % 256])]

\* Stands for SHA-256.
integrityHash(bytes) ==
    LET mixed == digest(bytes, 0)
    IN  sequenceOf([j \in 1..HashLength |-> (mixed + j) % 256])

\* A fixed-width integer, least significant byte first.
littleEndian(n, width) ==
    sequenceOf([i \in 1..width |->
                   (n \div (IF i = 1 THEN 1 ELSE IF i = 2 THEN 256
                            ELSE IF i = 3 THEN 65536 ELSE 16777216)) % 256])

fromLittleEndian(bytes) ==
    LET at(i) == IF i <= Len(bytes) THEN bytes[i] ELSE 0
    IN  at(1) + 256 * at(2) + 65536 * at(3) + 16777216 * at(4)

\* const iterations = 100000; the standard format implies the same number.
DefaultIterations == 100000

kdfMethodTag(method) == IF method = "pbkdf2" THEN 1 ELSE 2

metadataBytes(metadata) ==
    IF metadata.present THEN utf8Encode(metadata.label) ELSE <<>>

\* ciphertext || authTag
sealedBytes(sealed) == sealed.ciphertext \o sealed.authTag

\* salt || nonce || ciphertext || authTag
standardContainer(request, draw) ==
    draw.salt \o draw.nonce
        \o sealedBytes(cipherEncrypt(deriveKey(request.passphrase,
                                               passwordText(request.password),
                                               draw.salt, DefaultIterations),
                                     draw.nonce, utf8Encode(request.seedPhrase), <<>>))

\* body || integrityHash
withIntegrityHash(body) == body \o integrityHash(body)

\* magic || version || kdfMethod || iterations || salt || nonce || metadataLen
\* || metadata || ciphertext || authTag
advancedBody(request, draw, method, iterations, metadata) ==
    MagicHeader \o <<FormatVersion, kdfMethodTag(method)>>
        \o littleEndian(iterations, 4) \o draw.salt \o draw.nonce
        \o littleEndian(Len(metadata), 2) \o metadata
        \o sealedBytes(cipherEncrypt(deriveKey(request.passphrase,
                                               passwordText(request.password),
                                               draw.salt, iterations),
                                     draw.nonce, utf8Encode(request.seedPhrase),
                                     metadata))

\* The advanced container; encrypt_with_advanced_crypto is told the method and
\* the iterations, encrypt_seed_phrase_with_wallet_metadata takes the defaults.
advancedContainer(request, draw) ==
    withIntegrityHash(
        IF request.command = "encrypt_with_advanced_crypto"
        THEN advancedBody(request, draw, request.key_derivation_method,
                          request.iterations, metadataBytes(request.wallet_metadata))
        ELSE advancedBody(request, draw, "pbkdf2", DefaultIterations,
                          metadataBytes(request.wallet_metadata)))

\* The container an encryption command builds: encrypt_seed_phrase writes the
\* standard format, encrypt_with_advanced_crypto and
\* encrypt_seed_phrase_with_wallet_metadata the advanced one.
containerOf(request, draw) ==
    IF request.command = "encrypt_seed_phrase" THEN standardContainer(request, draw)
    ELSE advancedContainer(request, draw)

Success(value) == [ok |-> TRUE, value |-> value, error |-> "none"]

Failure(error) == [ok |-> FALSE, value |-> <<>>, error |-> error]

AdvancedHeaderLength == MagicLength + 1 + 1 + 4 + SaltLength + NonceLength + 2

\* The plaintext of an opened container.
plaintextOf(opened) ==
    IF ~opened.ok THEN Failure("AuthenticationFailure")
    ELSE Success(utf8Decode(opened.plaintext))

\* salt || nonce || ciphertext || authTag, taken apart and opened.
openStandard(bytes, passphrase, password) ==
    IF Len(bytes) < SaltLength + NonceLength + TagLength
    THEN Failure("TruncatedContainer")
    ELSE plaintextOf(
             cipherDecrypt(deriveKey(passphrase, password, SubSeq(bytes, 1, SaltLength),
                                     DefaultIterations),
                           SubSeq(bytes, SaltLength + 1, SaltLength + NonceLength),
                           SubSeq(bytes, SaltLength + NonceLength + 1,
                                  Len(bytes) - TagLength),
                           SubSeq(bytes, Len(bytes) - TagLength + 1, Len(bytes)),
                           <<>>))

\* decrypt_content
decrypt_content(request) ==
    IF ~decodeBase64(request.encrypted_content).ok THEN Failure("MalformedBase64")
    ELSE openStandard(decodeBase64(request.encrypted_content).data,
                      request.passphrase, passwordText(request.password))

\* The advanced container after its header, taken apart and opened.
openAdvancedBody(bytes, passphrase, password, iterations, metadataLen) ==
    IF Len(bytes) < AdvancedHeaderLength + metadataLen + TagLength + HashLength
    THEN Failure("TruncatedContainer")
    ELSE plaintextOf(
             cipherDecrypt(deriveKey(passphrase, password,
                                     SubSeq(bytes, MagicLength + 7,
                                            MagicLength + 6 + SaltLength),
                                     iterations),
                           SubSeq(bytes, MagicLength + 7 + SaltLength,
                                  MagicLength + 6 + SaltLength + NonceLength),
                           SubSeq(bytes, AdvancedHeaderLength + metadataLen + 1,
                                  Len(bytes) - HashLength - TagLength),
                           SubSeq(bytes, Len(bytes) - HashLength - TagLength + 1,
                                  Len(bytes) - HashLength),
                           SubSeq(bytes, AdvancedHeaderLength + 1,
                                  AdvancedHeaderLength + metadataLen)))

\* The advanced container: its header is checked, then the rest is opened.
openAdvanced(bytes, passphrase, password) ==
    IF Len(bytes) < MagicLength \/ SubSeq(bytes, 1, MagicLength) # MagicHeader
    THEN Failure("UnknownMagic")
    ELSE IF Len(bytes) < AdvancedHeaderLength + TagLength + HashLength
    THEN Failure("TruncatedContainer")
    ELSE IF bytes[MagicLength + 1] # FormatVersion THEN Failure("UnsupportedVersion")
    ELSE openAdvancedBody(bytes, passphrase, password,
                          fromLittleEndian(SubSeq(bytes, MagicLength + 3,
                                                  MagicLength + 6)),
                          fromLittleEndian(SubSeq(bytes, AdvancedHeaderLength - 1,
                                                  AdvancedHeaderLength)))

\* decrypt_with_advanced_crypto
decrypt_with_advanced_crypto(request) ==
    IF ~decodeBase64(request.encrypted_content).ok THEN Failure("MalformedBase64")
    ELSE openAdvanced(decodeBase64(request.encrypted_content).data,
                      request.passphrase, passwordText(request.password))

\* The answer of the back end to a decryption command.
decryptResponse(request) ==
    IF request.command = "decrypt_with_advanced_crypto"
    THEN decrypt_with_advanced_crypto(request)
    ELSE decrypt_content(request)

\* What the random number generator hands to one encryption.
RandomDraws ==
    {[salt |-> sequenceOf([i \in 1..SaltLength |-> i]),
      nonce |-> sequenceOf([i \in 1..NonceLength |-> 100 + i])],
     [salt |-> sequenceOf([i \in 1..SaltLength |-> 255 - i]),
      nonce |-> sequenceOf([i \in 1..NonceLength |-> 2 * i])]}

(***************************************************************************)
(* The encrypt and decrypt tabs.                                           *)
(***************************************************************************)
encryptVars ==
    <<encryptForm, encryptResult, encryptOrigin, encryptCall, walletCall, encryptUi,
      encryptions>>

decryptVars ==
    <<decryptForm, contentOrigin, decryptResult, decryptCall, decryptUi,
      lastDecryption>>

\* switchTab, with the validateForms it ends with.  (The tab is left alone
\* while a command is awaited.)
SwitchTab(tabName) ==
    /\ UNCHANGED sideVars
    /\ currentTab # tabName
    /\ ~encryptCall.pending /\ ~walletCall.pending /\ ~decryptCall.pending
    /\ currentTab' = tabName
    /\ IF tabName = "encrypt"
       THEN /\ encryptUi' = validateEncryptForm(seedInput, encryptForm, encryptResult,
                                                encryptUi)
            /\ UNCHANGED decryptUi
       ELSE /\ decryptUi' = validateDecryptForm(decryptForm, decryptUi)
            /\ UNCHANGED encryptUi
    /\ UNCHANGED <<seedVars, lastMessage, tauriAvailable, encryptForm, encryptResult,
                   encryptOrigin, encryptCall, walletCall, encryptions, decryptForm,
                   contentOrigin, decryptResult, decryptCall, lastDecryption>>

\* getValue('encrypt-password1') || ''
passwordOrEmpty(value) == Password(getValue(value))

\* password || null
passwordOrNull(password) == IF password.text = <<>> THEN NullPassword ELSE password

\* The value of key-derivation-method as it is, chosen or not.
chosenMethod(form) == form.keyDerivationMethod

\* document.getElementById('key-derivation-method')?.value || 'pbkdf2'
keyDerivationMethod(form) ==
    IF form.keyDerivationMethod = "" THEN "pbkdf2" ELSE form.keyDerivationMethod

\* performEncryption: the command it sends and its arguments.
encryptRequest(seedPhrase, passphrase, password, form) ==
    IF form.enableAdvancedCrypto
    THEN EncryptRequest("encrypt_with_advanced_crypto", seedPhrase, passphrase,
                        password, keyDerivationMethod(form), DefaultIterations,
                        NoMetadata)
    ELSE EncryptRequest("encrypt_seed_phrase", seedPhrase, passphrase, password,
                        "", 0, NoMetadata)

\* performEncryptionWithWalletLabel: the command it sends and its arguments.
walletEncryptRequest(seedPhrase, passphrase, password, form, walletInfo) ==
    IF form.enableAdvancedCrypto
    THEN EncryptRequest("encrypt_with_advanced_crypto", seedPhrase, passphrase,
                        password, keyDerivationMethod(form), DefaultIterations,
                        NoMetadata)
    ELSE EncryptRequest("encrypt_seed_phrase_with_wallet_metadata", seedPhrase,
                        passphrase, passwordOrNull(password), "", 0,
                        [present |-> TRUE, label |-> walletInfo.label,
                         wallet_type |-> walletInfo.wallet_type])

\* Encryption commands sent in one run.
MaxEncryptions == 1

\* A catch block that leaves encrypt-result as it is.
encryptResultKept(result) == result

\* setValue('encrypt-result', '') of the catch blocks
encryptResultAfterFailure(result) == <<>>

\* performEncryption, up to the command it awaits; limit bounds the
\* encryptions that are started.
performEncryptionWithin(limit) ==
    /\ UNCHANGED sideVars
    /\ currentTab = "encrypt"
    /\ ~encryptUi.btnDisabled
    /\ ~encryptCall.pending
    /\ LET seedPhrase == getValue(seedInput)
           passphrase == getValue(encryptForm.passphrase1)
           password == passwordOrEmpty(encryptForm.password1)
       IN  IF ~tauriAvailable
           THEN /\ lastMessage' = "Tauri API not available"
                /\ UNCHANGED <<encryptCall, encryptUi, encryptions>>
           ELSE IF seedPhrase = <<>> \/ passphrase = <<>>
           THEN /\ lastMessage' = "Please fill all required fields"
                /\ UNCHANGED <<encryptCall, encryptUi, encryptions>>
           ELSE /\ encryptions < limit
                /\ encryptions' = encryptions + 1
                /\ encryptUi' = [encryptUi EXCEPT !.btnDisabled = TRUE,
                                                  !.status = "Encrypting seed phrase..."]
                /\ encryptCall' =
                       [pending |-> TRUE,
                        request |-> encryptRequest(seedPhrase, passphrase, password,
                                                   encryptForm)]
                /\ UNCHANGED lastMessage
    /\ UNCHANGED <<seedVars, tauriAvailable, currentTab, encryptForm, encryptResult,
                   encryptOrigin, walletCall, decryptVars>>

PerformEncryption == performEncryptionWithin(MaxEncryptions)

\* performEncryption after the command has answered with a container.  (The
\* integrity information and the reminder it goes on to show are not kept.)
EncryptReturns(draw) ==
    /\ UNCHANGED sideVars
    /\ encryptCall.pending
    /\ encryptOrigin' = Origin("produced", TRUE, containerOf(encryptCall.request, draw),
                               encryptCall.request)
    /\ encryptResult' = encodeBase64(encryptOrigin'.bytes)
    /\ encryptUi' = [encryptUi EXCEPT !.btnDisabled = FALSE,
                                      !.saveDisabled = FALSE,
                                      !.saveLabel = "Save to File",
                                      !.status = "Encryption completed successfully"]
    /\ lastMessage' = "Seed phrase encrypted successfully!"
    /\ encryptCall' = NoEncryptCall
    /\ UNCHANGED <<seedVars, tauriAvailable, currentTab, encryptForm, walletCall,
                   encryptions, decryptVars>>

\* performEncryption after the command has failed: catch and finally.
EncryptFails ==
    /\ UNCHANGED sideVars
    /\ encryptCall.pending
    /\ encryptResult' = encryptResultAfterFailure(encryptResult)
    /\ encryptOrigin' = NoOrigin
    /\ encryptUi' = [encryptUi EXCEPT !.btnDisabled = FALSE,
                                      !.status = "Encryption failed"]
    /\ lastMessage' = "Encryption failed"
    /\ encryptCall' = NoEncryptCall
    /\ UNCHANGED <<seedVars, tauriAvailable, currentTab, encryptForm, walletCall,
                   encryptions, decryptVars>>

\* The wallet the label dialog describes.
WalletInfos == {[label |-> <<"c", "d">>, wallet_type |-> "Hardware"]}

\* performEncryptionWithWalletLabel, up to the command it awaits.
performEncryptionWithWalletLabelWithin(walletInfo, limit) ==
    /\ UNCHANGED sideVars
    /\ currentTab = "encrypt"
    /\ ~encryptUi.walletBtnDisabled
    /\ ~walletCall.pending
    /\ LET seedPhrase == getValue(seedInput)
           passphrase == getValue(encryptForm.passphrase1)
           password == passwordOrEmpty(encryptForm.password1)
       IN  IF ~tauriAvailable
           THEN /\ lastMessage' = "Tauri API not available"
                /\ UNCHANGED <<walletCall, encryptUi, encryptions>>
           ELSE IF seedPhrase = <<>> \/ passphrase = <<>>
           THEN /\ lastMessage' = "Please fill all required fields"
                /\ UNCHANGED <<walletCall, encryptUi, encryptions>>
           ELSE /\ encryptions < limit
                /\ encryptions' = encryptions + 1
                /\ encryptUi' =
                       [encryptUi EXCEPT !.walletBtnDisabled = TRUE,
                                         !.status = "Encrypting seed phrase with wallet label..."]
                /\ walletCall' =
                       [pending |-> TRUE,
                        request |-> walletEncryptRequest(seedPhrase, passphrase,
                                                         password, encryptForm,
                                                         walletInfo)]
                /\ UNCHANGED lastMessage
    /\ UNCHANGED <<seedVars, tauriAvailable, currentTab, encryptForm, encryptResult,
                   encryptOrigin, encryptCall, decryptVars>>

PerformEncryptionWithWalletLabel(walletInfo) ==
    performEncryptionWithWalletLabelWithin(walletInfo, MaxEncryptions)

\* performEncryptionWithWalletLabel after the command has answered.
WalletEncryptReturns(draw) ==
    /\ UNCHANGED sideVars
    /\ walletCall.pending
    /\ encryptOrigin' = Origin("produced", TRUE, containerOf(walletCall.request, draw),
                               walletCall.request)
    /\ encryptResult' = encodeBase64(encryptOrigin'.bytes)
    /\ encryptUi' =
           [encryptUi EXCEPT !.walletBtnDisabled = FALSE,
                             !.saveDisabled = FALSE,
                             !.saveLabel = "Save as wallet file",
                             !.status = "Encryption with wallet label completed successfully"]
    /\ lastMessage' = "Wallet encrypted successfully!"
    /\ walletCall' = NoEncryptCall
    /\ UNCHANGED <<seedVars, tauriAvailable, currentTab, encryptForm, encryptCall,
                   encryptions, decryptVars>>

\* performEncryptionWithWalletLabel after the command has failed.
WalletEncryptFails ==
    /\ UNCHANGED sideVars
    /\ walletCall.pending
    /\ encryptResult' = encryptResultAfterFailure(encryptResult)
    /\ encryptOrigin' = NoOrigin
    /\ encryptUi' = [encryptUi EXCEPT !.walletBtnDisabled = FALSE,
                                      !.status = "Encryption failed"]
    /\ lastMessage' = "Encryption failed"
    /\ walletCall' = NoEncryptCall
    /\ UNCHANGED <<seedVars, tauriAvailable, currentTab, encryptForm, encryptCall,
                   encryptions, decryptVars>>

\* A request that hands on the content without the white space atob skips.
decryptRequestStripped(encryptedContent, passphrase, password) ==
    DecryptRequest(IF isAdvancedFormat(encryptedContent)
                   THEN "decrypt_with_advanced_crypto" ELSE "decrypt_content",
                   SelectSeq(encryptedContent, isNotAsciiWhitespace), passphrase,
                   password)

\* performDecryption: the command it sends and its arguments.
decryptRequest(encryptedContent, passphrase, password) ==
    DecryptRequest(IF isAdvancedFormat(encryptedContent)
                   THEN "decrypt_with_advanced_crypto" ELSE "decrypt_content",
                   encryptedContent, passphrase, password)

\* A failure that leaves the decrypt-result field as it was.
resultKept(result) == result

\* The decrypt-result field after a failed decryption: setValue('decrypt-result', '').
resultAfterFailure(result) == <<>>

\* A text is put into decrypt-content; the input event ends in validateForms.
\* (The fields are left alone while a decryption is awaited.)
EnterContent(text, origin) ==
    /\ currentTab = "decrypt"
    /\ ~decryptCall.pending
    /\ decryptForm' = [decryptForm EXCEPT !.content = text]
    /\ contentOrigin' = origin
    /\ decryptUi' = validateDecryptForm(decryptForm', decryptUi)
    /\ lastDecryption' = NoDecryption
    /\ UNCHANGED <<seedVars, lastMessage, tauriAvailable, currentTab, encryptVars,
                   decryptResult, decryptCall>>

\* The text of encrypt-result is pasted as it is, with a line break after it,
\* or wrapped into two lines.
PasteKinds == {"produced", "line", "wrapped"}

\* The place where a wrapped text is broken.
WrapColumn == 4

PasteResult(kind) ==
    /\ UNCHANGED sideVars
    /\ encryptResult # <<>>
    /\ EnterContent(CASE kind = "produced" -> encryptResult
                      [] kind = "line" -> encryptResult \o <<"\n">>
                      [] OTHER -> SubSeq(encryptResult, 1, WrapColumn) \o <<"\n">>
                                      \o SubSeq(encryptResult, WrapColumn + 1,
                                                Len(encryptResult)),
                    [encryptOrigin EXCEPT !.kind = kind])

\* Where the tag of a container begins; the ciphertext ends before it.
authTagStart(origin) ==
    IF origin.request.command = "encrypt_seed_phrase"
    THEN Len(origin.bytes) - TagLength + 1
    ELSE Len(origin.bytes) - HashLength - TagLength + 1

TamperSpots == {"ciphertextLast", "authTagFirst"}

\* What is added, modulo 256, to the byte that is changed.
TamperDeltas == {1, 128}

spotIndex(origin, spot) ==
    IF spot = "ciphertextLast" THEN authTagStart(origin) - 1 ELSE authTagStart(origin)

\* The container of encrypt-result is pasted with one byte of its ciphertext
\* or of its tag changed.
PasteTampered(spot, delta) ==
    /\ UNCHANGED sideVars
    /\ encryptResult # <<>>
    /\ LET bytes == [encryptOrigin.bytes EXCEPT
                         ![spotIndex(encryptOrigin, spot)] = (@ + delta) % 256]
       IN  EnterContent(encodeBase64(bytes),
                        [encryptOrigin EXCEPT !.kind = "tampered", !.bytes = bytes])

\* Texts that no encryption wrote, each with the bytes it stands for if it is
\* base64: no base64 at all; the magic token alone, padded and not; the magic
\* token and one more byte; the first seven bytes of the magic token; one
\* character; a blank.
ForeignContents ==
    {[text |-> <<"!", "!">>, decodes |-> FALSE, bytes |-> <<>>],
     [text |-> <<"Q", "U", "V", "T", "Q", "U", "R", "W", "M", "D", "E", "=">>,
      decodes |-> TRUE, bytes |-> <<65, 69, 83, 65, 68, 86, 48, 49>>],
     [text |-> <<"Q", "U", "V", "T", "Q", "U", "R", "W", "M", "D", "E">>,
      decodes |-> TRUE, bytes |-> <<65, 69, 83, 65, 68, 86, 48, 49>>],
     [text |-> <<"Q", "U", "V", "T", "Q", "U", "R", "W", "M", "D", "E", "B">>,
      decodes |-> TRUE, bytes |-> <<65, 69, 83, 65, 68, 86, 48, 49, 1>>],
     [text |-> <<"Q", "U", "V", "T", "Q", "U", "R", "W", "M", "A", "=", "=">>,
      decodes |-> TRUE, bytes |-> <<65, 69, 83, 65, 68, 86, 48>>],
     [text |-> <<"Q">>, decodes |-> FALSE, bytes |-> <<>>],
     [text |-> <<" ">>, decodes |-> TRUE, bytes |-> <<>>]}

PasteForeign(content) ==
    /\ UNCHANGED sideVars
    /\ EnterContent(content.text,
                    Origin("foreign", content.decodes, content.bytes, NoEncryptRequest))

\* The passphrase and the password typed into the decrypt tab: those of the
\* encrypt tab, or others.
DecryptCredentials ==
    {"same", "otherPassphrase", "otherPassword", "blankPassphrase"}

EnterCredentials(choice) ==
    /\ UNCHANGED sideVars
    /\ currentTab = "decrypt"
    /\ ~decryptCall.pending
    /\ decryptForm' =
           [decryptForm EXCEPT
                !.passphrase = CASE choice = "otherPassphrase" -> <<"x">>
                                 [] choice = "blankPassphrase" -> <<" ">>
                                 [] OTHER -> encryptForm.passphrase1,
                !.password = IF choice = "otherPassword" THEN <<"x">>
                             ELSE encryptForm.password1]
    /\ decryptForm' # decryptForm
    /\ decryptUi' = validateDecryptForm(decryptForm', decryptUi)
    /\ lastDecryption' = NoDecryption
    /\ UNCHANGED <<seedVars, lastMessage, tauriAvailable, currentTab, encryptVars,
                   contentOrigin, decryptResult, decryptCall>>

\* performDecryption, up to the command it awaits.
PerformDecryption ==
    /\ UNCHANGED sideVars
    /\ currentTab = "decrypt"
    /\ ~decryptUi.btnDisabled
    /\ ~decryptCall.pending
    /\ LET encryptedContent == getValue(decryptForm.content)
           passphrase == getValue(decryptForm.passphrase)
           password == passwordOrEmpty(decryptForm.password)
       IN  IF ~tauriAvailable
           THEN /\ lastMessage' = "Tauri API not available"
                /\ UNCHANGED <<decryptCall, decryptUi>>
           ELSE IF encryptedContent = <<>> \/ passphrase = <<>>
           THEN /\ lastMessage' = "Please fill all required fields"
                /\ UNCHANGED <<decryptCall, decryptUi>>
           ELSE /\ decryptUi' = [decryptUi EXCEPT !.btnDisabled = TRUE,
                                                  !.status = "Decrypting content..."]
                /\ decryptCall' =
                       [pending |-> TRUE,
                        request |-> decryptRequest(encryptedContent, passphrase,
                                                   password),
                        origin |-> contentOrigin,
                        form |-> decryptForm]
                /\ UNCHANGED lastMessage
    /\ UNCHANGED <<seedVars, tauriAvailable, currentTab, encryptVars, decryptForm,
                   contentOrigin, decryptResult, lastDecryption>>

\* performDecryption after the command has answered: the plaintext is shown,
\* or catch clears the result; finally enables the button.
DecryptReturns ==
    /\ UNCHANGED sideVars
    /\ decryptCall.pending
    /\ lastDecryption' =
           [done |-> TRUE, request |-> decryptCall.request,
            origin |-> decryptCall.origin, form |-> decryptCall.form,
            response |-> decryptResponse(decryptCall.request)]
    /\ decryptResult' = IF lastDecryption'.response.ok
                        THEN lastDecryption'.response.value
                        ELSE resultAfterFailure(decryptResult)
    /\ decryptUi' =
           [decryptUi EXCEPT !.btnDisabled = FALSE,
                             !.status = IF lastDecryption'.response.ok
                                        THEN "Decryption completed successfully"
                                        ELSE "Decryption failed"]
    /\ lastMessage' = IF lastDecryption'.response.ok
                      THEN "Content decrypted successfully!"
                      ELSE "Decryption failed"
    /\ decryptCall' = NoDecryptCall
    /\ UNCHANGED <<seedVars, tauriAvailable, currentTab, encryptVars, decryptForm,
                   contentOrigin>>

(***************************************************************************)
(* The specification of the two tabs.  The forms of the encrypt tab are    *)
(* filled in before the first step and stay as they are; the seed phrase   *)
(* has been validated against the loaded word list.                        *)
(***************************************************************************)
\* Eleven times act, then add.
Mnemonic12 ==
    SubSeq(repeatWord(act, 11, <<" ">>), 2, 11 * (Len(act) + 1)) \o <<" ">> \o add

\* A mnemonic of twelve words, one word alone (not a mnemonic), nothing.
SeedPhrases == {<<" ">> \o Mnemonic12 \o <<"\n">>, act, <<>>}

\* Words of the EFF large wordlist (eff-wordlist.json).
EffExcerpt == << <<"a", "c", "i", "d">>, <<"a", "c", "r", "e">> >>

\* One word that is not of the EFF list, one that is, blanks, nothing.
Passphrases == {<<" ", "p">>, <<"a", "c", "i", "d">>, <<" ">>, <<>>}

Passwords == {<<>>, <<"w">>}

\* The value of key-derivation-method; "" when nothing is chosen.
KeyDerivationMethods == {"", "pbkdf2"}

\* The form with neither password nor advanced format.
PlainForms ==
    {EncryptForm(passphrase, passphrase, <<>>, <<>>, FALSE, "") :
         passphrase \in Passphrases}

\* Nothing is missing for an encryption.
filledInFully(seed, form, tauri) ==
    tauri /\ trim(seed) # <<>> /\ trim(form.passphrase1) # <<>>

\* A password and the advanced format are chosen only where an encryption can
\* follow.
InitCrypto ==
    /\ SideUntouched
    /\ entry = "validateSeedPhrase"
    /\ seedInput \in SeedPhrases
    /\ typed = <<>>
    /\ windowBip39Words = Loaded(Bip39Excerpt)
    /\ bip39Fetch = "loaded"
    /\ validationStatus =
           validateSeedPhrase(seedInput, windowBip39Words, Status(TRUE, NoResult))
    /\ structureResult = NoResult
    /\ pendingRetries = 0
    /\ lastFormat = NoFormat
    /\ lastMessage = "none"
    /\ tauriAvailable \in BOOLEAN
    /\ currentTab = "encrypt"
    /\ \E passphrase \in Passphrases, password \in Passwords, advanced \in BOOLEAN :
           \E method \in KeyDerivationMethods :
               encryptForm = EncryptForm(passphrase, passphrase, password, password,
                                         advanced, method)
    /\ filledInFully(seedInput, encryptForm, tauriAvailable)
           \/ encryptForm \in PlainForms
    /\ encryptForm.enableAdvancedCrypto \/ encryptForm.keyDerivationMethod = ""
    /\ seedInput = act \/ includes(EffExcerpt, encryptForm.passphrase1)
           => encryptForm \in PlainForms
    /\ encryptResult = <<>>
    /\ encryptOrigin = NoOrigin
    /\ encryptCall = NoEncryptCall
    /\ walletCall = NoEncryptCall
    /\ encryptUi = validateEncryptForm(seedInput, encryptForm, encryptResult,
                                       EncryptUi(TRUE, TRUE, TRUE, "Save to File", ""))
    /\ encryptions = 0
    /\ decryptForm = DecryptForm(<<>>, <<>>, <<>>)
    /\ contentOrigin = NoOrigin
    /\ decryptResult = <<>>
    /\ decryptCall = NoDecryptCall
    /\ decryptUi = DecryptUi(TRUE, "")
    /\ lastDecryption = NoDecryption

NextCrypto ==
    \/ \E tabName \in {"encrypt", "decrypt"} : SwitchTab(tabName)
    \/ PerformEncryption
    \/ \E draw \in RandomDraws : EncryptReturns(draw)
    \/ EncryptFails
    \/ \E walletInfo \in WalletInfos : PerformEncryptionWithWalletLabel(walletInfo)
    \/ \E draw \in RandomDraws : WalletEncryptReturns(draw)
    \/ WalletEncryptFails
    \/ \E kind \in PasteKinds : PasteResult(kind)
    \/ \E spot \in TamperSpots, delta \in TamperDeltas : PasteTampered(spot, delta)
    \/ \E content \in ForeignContents : PasteForeign(content)
    \/ \E choice \in DecryptCredentials : EnterCredentials(choice)
    \/ PerformDecryption
    \/ DecryptReturns

SpecCrypto == InitCrypto /\ [][NextCrypto]_vars

(***************************************************************************)
(* Claims about encryption and decryption.                                 *)
(***************************************************************************)
seedIsValid == ~validationStatus.hidden /\ validationStatus.result.isValid

\* The last decryption took the text of encrypt-result, as it is or with a
\* line break after it, and the passphrase and password of the encrypt tab.
decryptedOwnResult ==
    /\ lastDecryption.done
    /\ lastDecryption.origin.kind \in {"produced", "line"}
    /\ lastDecryption.form.passphrase = encryptForm.passphrase1
    /\ lastDecryption.form.password = encryptForm.password1

\* C1 (as the code has it): for a valid mnemonic, a passphrase that is not
\* empty after trimming and any password, the empty one included, decrypting
\* what the encryption wrote, with the same passphrase and password, answers
\* with the mnemonic (without the white space around it) and shows it; a
\* passphrase of white space alone is never sent to an encryption command.
C1_RoundTripForTrimmedPassphrase ==
    /\ (seedIsValid /\ decryptedOwnResult)
           => /\ lastDecryption.response = Success(trim(seedInput))
              /\ decryptResult = trim(seedInput)
    /\ encryptCall.pending => encryptCall.request.passphrase # <<>>
    /\ walletCall.pending => walletCall.request.passphrase # <<>>

C1_Witness ==
    /\ seedIsValid
    /\ decryptedOwnResult
    /\ encryptForm.passphrase1 = <<" ", "p">>
    /\ encryptForm.password1 = <<>>
    /\ lastDecryption.origin.request.command = "encrypt_seed_phrase"
    /\ decryptResult = Mnemonic12

\* C1 as the specification words it: every passphrase that is not empty can be
\* used to encrypt a valid mnemonic, and the round trip returns the mnemonic.
C1_RoundTripForNonEmptyPassphrase ==
    /\ (seedIsValid /\ decryptedOwnResult) => decryptResult = trim(seedInput)
    /\ (/\ seedIsValid
        /\ encryptForm.passphrase1 # <<>>
        /\ encryptForm.passphrase2 = encryptForm.passphrase1
        /\ currentTab = "encrypt"
        /\ ~encryptCall.pending) => ~encryptUi.btnDisabled

\* C2: after a container with one byte of its ciphertext or of its tag changed
\* was decrypted, the answer is AuthenticationFailure and the decrypt-result
\* field is empty.
C2_TamperedContainerRejected ==
    (lastDecryption.done /\ lastDecryption.origin.kind = "tampered")
        => /\ lastDecryption.response = Failure("AuthenticationFailure")
           /\ decryptResult = <<>>

C2_Witness ==
    /\ lastDecryption.done
    /\ lastDecryption.origin.kind = "tampered"
    /\ lastDecryption.form.passphrase = encryptForm.passphrase1
    /\ lastDecryption.form.password = encryptForm.password1
    /\ lastDecryption.response.error = "AuthenticationFailure"
    /\ decryptResult = <<>>
    /\ lastMessage = "Decryption failed"

\* The content a decryption was started with is base64 and its first eight
\* bytes are the magic token.
hasMagic(origin) ==
    /\ origin.decodes
    /\ Len(origin.bytes) >= MagicLength
    /\ SubSeq(origin.bytes, 1, MagicLength) = MagicHeader

\* C8: the advanced command is sent exactly if the content is base64 and
\* begins with the magic token, the standard command in every other case, and
\* a content that is decrypted again is sent to the same command.
C8_SniffDeterministic ==
    decryptCall.pending
        => /\ decryptCall.request.command =
                  IF hasMagic(decryptCall.origin) THEN "decrypt_with_advanced_crypto"
                  ELSE "decrypt_content"
           /\ (/\ lastDecryption.done
               /\ lastDecryption.request.encrypted_content
                      = decryptCall.request.encrypted_content)
                  => lastDecryption.request.command = decryptCall.request.command

C8_Witness ==
    /\ decryptCall.pending
    /\ lastDecryption.done
    /\ decryptCall.origin.kind = "wrapped"
    /\ decryptCall.request.command = "decrypt_with_advanced_crypto"
    /\ lastDecryption.request.command = "decrypt_with_advanced_crypto"

\* A step in which performDecryption sends its command.
decryptionStarts == ~decryptCall.pending /\ decryptCall'.pending

\* C9: the step that sniffs the content and sends the command changes no
\* field and no result, and the content it sends is the content it read from
\* the field.
C9_SniffSideEffectFree ==
    [][decryptionStarts
           => /\ UNCHANGED <<seedVars, encryptVars, decryptForm, decryptResult,
                             contentOrigin, lastDecryption, tauriAvailable, currentTab>>
              /\ decryptCall'.request.encrypted_content = getValue(decryptForm.content)
              /\ decryptCall'.request.passphrase = getValue(decryptForm.passphrase)]_vars

C9_Witness ==
    /\ decryptCall.pending
    /\ decryptCall.origin.kind = "foreign"
    /\ ~decryptCall.origin.decodes
    /\ decryptCall.request.command = "decrypt_content"
    /\ decryptCall.request.encrypted_content = decryptForm.content

\* C10 as the specification words it: no command is sent with a null password.
C10_AbsentPasswordSentAsEmptyString ==
    /\ encryptCall.pending => ~encryptCall.request.password.isNull
    /\ walletCall.pending => ~walletCall.request.password.isNull
    /\ decryptCall.pending => ~decryptCall.request.password.isNull

\* The advanced encryption commands that are awaited.
advancedRequests ==
    {call.request : call \in {c \in {encryptCall, walletCall} :
                                 /\ c.pending
                                 /\ c.request.command = "encrypt_with_advanced_crypto"}}

\* C11: every request for an advanced encryption names the key derivation
\* method and carries the iteration count, which is the default of 100000 and
\* so not below 10000.
C11_AdvancedRequestExplicitParameters ==
    \A request \in advancedRequests :
        /\ request.key_derivation_method # ""
        /\ request.iterations = DefaultIterations
        /\ request.iterations >= 10000

C11_Witness ==
    /\ encryptCall.pending
    /\ encryptCall.request \in advancedRequests
    /\ encryptForm.keyDerivationMethod = ""
    /\ encryptCall.request.key_derivation_method = "pbkdf2"
    /\ encryptCall.request.iterations = 100000

\* The encryption commands that are awaited.
pendingEncryptRequests ==
    {call.request : call \in {c \in {encryptCall, walletCall} : c.pending}}

\* C12 (as the specification has it): an encryption command is sent only for
\* a seed phrase that validateSeedPhrase found valid.
C12_InvalidSeedNeverSent ==
    pendingEncryptRequests # {} => seedIsValid

\* The words of a passphrase.
passphraseWords(passphrase) == splitWords(passphrase)

\* Every word of the passphrase is of the EFF wordlist.
isEffPassphrase(passphrase) ==
    \A i \in DOMAIN passphraseWords(passphrase) :
        includes(EffExcerpt, passphraseWords(passphrase)[i])

\* C13 (as the documentation has it): an encryption command is sent only
\* with a passphrase whose words are all of the EFF wordlist.
C13_OnlyEffPassphraseSent ==
    \A request \in pendingEncryptRequests : isEffPassphrase(request.passphrase)

\* C14 (as the specification has it): wallet metadata is sent only with an
\* encryption in the advanced format; an encryption in the standard format,
\* with enable-advanced-crypto unchecked, carries none.
C14_MetadataOnlyWithAdvancedFormat ==
    \A request \in pendingEncryptRequests :
        request.wallet_metadata.present =>
            /\ encryptForm.enableAdvancedCrypto
            /\ request.command = "encrypt_with_advanced_crypto"

(***************************************************************************)
(* The wallet label dialog and the suggested filename (SpecFilename).  Two *)
(* copies of the dialog are in the source: part_001, with a custom type    *)
(* field and a preview it computes itself, and part_002, whose preview     *)
(* comes from the command generate_wallet_filename_preview.                *)
(***************************************************************************)
\* [a-zA-Z0-9_-]
isFilenameChar(c) == c \in LowerLetters \cup UpperLetters \cup Digits \cup {"_", "-"}

sanitizeChar(c) == IF isFilenameChar(c) THEN c ELSE "_"

\* s.replace(/[^a-zA-Z0-9_-]/g, '_')
sanitize(s) == sequenceOf([i \in 1..Len(s) |-> sanitizeChar(s[i])])

\* Date.prototype.toISOString
toISOString(t) == t.date \o <<"T">> \o t.time \o <<".", "0", "0", "0", "Z">>

\* s.split('T')[0]
RECURSIVE beforeT(_)
beforeT(s) ==
    IF s = <<>> \/ Head(s) = "T" THEN <<>> ELSE <<Head(s)>> \o beforeT(Tail(s))

isNotDash(c) == c # "-"

isNotDashNorColon(c) == c \notin {"-", ":"}

underscoreForT(c) == IF c = "T" THEN "_" ELSE c

\* toISOString().slice(0,10).replace(/-/g,'')
compactDate(t) == SelectSeq(SubSeq(toISOString(t), 1, 10), isNotDash)

\* toISOString().slice(0,19).replace(/[-:]/g,'').replace('T', '_')
compactTimestamp(t) ==
    sequenceOf([i \in 1..Len(SelectSeq(SubSeq(toISOString(t), 1, 19), isNotDashNorColon)) |->
                   underscoreForT(SelectSeq(SubSeq(toISOString(t), 1, 19),
                                            isNotDashNorColon)[i])])

BinExtension == <<".", "b", "i", "n">>

WalletPrefix == <<"w", "a", "l", "l", "e", "t", "_">>

LabelPlaceholder == <<"[", "l", "a", "b", "e", "l", "]">>

CustomTypePlaceholder ==
    <<"[", "c", "u", "s", "t", "o", "m", "_", "t", "y", "p", "e", "]">>

MyWallet == <<"M", "y", "W", "a", "l", "l", "e", "t">>

\* Option values of wallet-type-select: the first one of each copy, and Custom.
MainOption == <<"M", "a", "i", "n">>

MainWalletOption == <<"M", "a", "i", "n", "W", "a", "l", "l", "e", "t">>

CustomOption == <<"C", "u", "s", "t", "o", "m">>

TypeOptions(copy) ==
    IF copy = "part_001" THEN {MainOption, CustomOption}
    ELSE {MainWalletOption, CustomOption}

firstOption(copy) == IF copy = "part_001" THEN MainOption ELSE MainWalletOption

orElse(text, fallback) == IF text = <<>> THEN fallback ELSE text

\* part_001, updatePreview: the text of filename-preview.
updatePreview(label, typeSelect, customType, t) ==
    WalletPrefix \o orElse(sanitize(trim(label)), LabelPlaceholder) \o <<"_">>
        \o (IF typeSelect = CustomOption
            THEN orElse(sanitize(trim(customType)), CustomTypePlaceholder)
            ELSE toLowerCase(typeSelect))
        \o <<"_">> \o beforeT(toISOString(t)) \o BinExtension

\* part_001, performEncryptionWithWalletLabel: suggestedFilename.  (The wallet
\* type the dialog hands over is always a string.)
suggestedFilenameOf(walletInfo, t) ==
    sanitize(walletInfo.label) \o <<"_">>
        \o sanitize(toLowerCase(walletInfo.wallet_type))
        \o <<"_">> \o beforeT(toISOString(t)) \o BinExtension

\* buildFilename of the WalletMetadataService, behind the commands
\* generate_wallet_filename_preview and encrypt_mnemonic_with_wallet_metadata.
buildFilename(walletInfo, t) ==
    sanitize(walletInfo.label) \o <<"_">>
        \o sanitize(toLowerCase(walletInfo.wallet_type))
        \o <<"_">> \o t.date \o BinExtension

\* part_002, updateFilenamePreview: the filename it shows and stores; backend
\* is "none" without tauriAPI.invoke, "throws" when the command fails.
updateFilenamePreview(label, typeSelect, t, backend) ==
    CASE backend = "ok" ->
             buildFilename(WalletInfo(orElse(trim(label), MyWallet), typeSelect), t)
      [] backend = "throws" ->
             orElse(trim(label), MyWallet) \o <<"_">> \o typeSelect \o <<"_">>
                 \o compactDate(t) \o BinExtension
      [] OTHER ->
             orElse(trim(label), MyWallet) \o <<"_">> \o typeSelect \o <<"_">>
                 \o compactTimestamp(t) \o BinExtension

\* What the command behind the preview can do.
PreviewBackends == IF tauriAvailable THEN {"ok", "throws"} ELSE {"none"}

LabelChars == {"a", " ", "!", NonAsciiUpper}

MaxLabelLen == 2

CustomTypeChars == {"D", "!"}

MaxCustomTypeLen == 1

\* The dialog with new values in its fields, after the preview was updated;
\* in part_002 the preview is stored as the suggested filename as well.
previewUpdated(label, typeSelect, customType, backend) ==
    /\ walletDialog' =
           WalletDialog(walletDialog.copy, TRUE, label, typeSelect, customType,
                        IF walletDialog.copy = "part_001"
                        THEN updatePreview(label, typeSelect, customType, now)
                        ELSE updateFilenamePreview(label, typeSelect, now, backend),
                        now.date)
    /\ suggestedFilename' =
           IF walletDialog.copy = "part_001" THEN suggestedFilename
           ELSE walletDialog'.preview
    /\ encryptUi' =
           IF walletDialog.copy = "part_001" THEN encryptUi
           ELSE [encryptUi EXCEPT !.saveLabel = "Save as wallet file"]

filenameUnchanged ==
    UNCHANGED <<seedVars, tauriAvailable, currentTab, encryptForm, encryptResult,
                encryptOrigin, encryptCall, walletCall, encryptions, decryptVars,
                wordListVars, keyboardVars, appVars>>

\* showWalletLabelDialog: a new dialog with empty fields and its first preview.
\* (The dialog is opened once.)
ShowWalletLabelDialog(backend) ==
    /\ ~walletDialog.open
    /\ walletDialog.previewedOn = <<>>
    /\ backend \in PreviewBackends
    /\ previewUpdated(<<>>, firstOption(walletDialog.copy), <<>>, backend)
    /\ UNCHANGED <<currentWalletInfo, now, lastMessage>>
    /\ filenameUnchanged

\* A character is typed into the label field.
LabelInput(c, backend) ==
    /\ walletDialog.open
    /\ Len(walletDialog.label) < MaxLabelLen
    /\ backend \in PreviewBackends
    /\ previewUpdated(walletDialog.label \o <<c>>, walletDialog.typeSelect,
                      walletDialog.customType, backend)
    /\ UNCHANGED <<currentWalletInfo, now, lastMessage>>
    /\ filenameUnchanged

\* Another wallet type is selected; part_001 empties the custom type field
\* unless Custom is selected.
TypeChange(option, backend) ==
    /\ walletDialog.open
    /\ option \in TypeOptions(walletDialog.copy) \ {walletDialog.typeSelect}
    /\ backend \in PreviewBackends
    /\ previewUpdated(walletDialog.label, option, <<>>, backend)
    /\ UNCHANGED <<currentWalletInfo, now, lastMessage>>
    /\ filenameUnchanged

\* part_001: a character is typed into the custom type field.
CustomTypeInput(c) ==
    /\ walletDialog.open
    /\ walletDialog.copy = "part_001"
    /\ walletDialog.typeSelect = CustomOption
    /\ Len(walletDialog.customType) < MaxCustomTypeLen
    /\ previewUpdated(walletDialog.label, walletDialog.typeSelect,
                      walletDialog.customType \o <<c>>, "ok")
    /\ UNCHANGED <<currentWalletInfo, now, lastMessage>>
    /\ filenameUnchanged

\* The wallet the dialog describes.
walletInfoOf(dialog) ==
    WalletInfo(trim(dialog.label),
               IF dialog.copy = "part_001" /\ dialog.typeSelect = CustomOption
               THEN trim(dialog.customType) ELSE dialog.typeSelect)

\* The filename that is suggested once the encryption command has answered:
\* part_001 builds it, part_002 takes the stored preview and, when there is
\* none, the one the command answered with.
finalFilename(dialog, walletInfo, stored, t) ==
    IF dialog.copy = "part_001" THEN suggestedFilenameOf(walletInfo, t)
    ELSE orElse(stored, buildFilename(walletInfo, t))

\* The click on the dialog's button that starts the encryption, with
\* performEncryptionWithWalletLabel as far as the filename goes; answered tells
\* whether the encryption command answered.
CreateAndEncrypt(answered) ==
    /\ walletDialog.open
    /\ IF trim(walletDialog.label) = <<>>
       THEN /\ lastMessage' = "Please enter a wallet label"
            /\ UNCHANGED <<walletDialog, currentWalletInfo, suggestedFilename, encryptUi>>
       ELSE IF /\ walletDialog.copy = "part_001"
               /\ walletDialog.typeSelect = CustomOption
               /\ trim(walletDialog.customType) = <<>>
       THEN /\ lastMessage' = "Please enter a custom wallet type"
            /\ UNCHANGED <<walletDialog, currentWalletInfo, suggestedFilename, encryptUi>>
       ELSE /\ walletDialog' = [walletDialog EXCEPT !.open = FALSE]
            /\ currentWalletInfo' =
                   IF walletDialog.copy = "part_001" THEN walletInfoOf(walletDialog)
                   ELSE currentWalletInfo
            /\ IF answered /\ tauriAvailable
               THEN /\ suggestedFilename' =
                           finalFilename(walletDialog, walletInfoOf(walletDialog),
                                         suggestedFilename, now)
                    /\ encryptUi' =
                           [encryptUi EXCEPT
                                !.saveDisabled = FALSE,
                                !.saveLabel = "Save as wallet file",
                                !.status = "Encryption with wallet label completed successfully"]
                    /\ lastMessage' = "Wallet encrypted successfully!"
               ELSE /\ lastMessage' = "Encryption failed"
                    /\ encryptUi' = [encryptUi EXCEPT !.status = "Encryption failed"]
                    /\ UNCHANGED suggestedFilename
    /\ UNCHANGED now
    /\ filenameUnchanged

\* Midnight passes.
DayPasses ==
    /\ now.date = FirstDay
    /\ now' = Clock(NextDay)
    /\ UNCHANGED <<walletDialog, currentWalletInfo, suggestedFilename, encryptUi,
                   lastMessage>>
    /\ filenameUnchanged

InitFilename ==
    /\ entry = "validateSeedPhrase"
    /\ seedInput = <<>>
    /\ typed = <<>>
    /\ windowBip39Words = Undefined
    /\ bip39Fetch = "pending"
    /\ validationStatus = Status(TRUE, NoResult)
    /\ structureResult = NoResult
    /\ pendingRetries = 0
    /\ lastFormat = NoFormat
    /\ lastMessage = "none"
    /\ tauriAvailable \in BOOLEAN
    /\ currentTab = "encrypt"
    /\ encryptForm = EncryptForm(<<>>, <<>>, <<>>, <<>>, FALSE, "")
    /\ encryptResult = <<>>
    /\ encryptOrigin = NoOrigin
    /\ encryptCall = NoEncryptCall
    /\ walletCall = NoEncryptCall
    /\ encryptUi = EncryptUi(TRUE, TRUE, TRUE, "Save to File", "")
    /\ encryptions = 0
    /\ decryptForm = DecryptForm(<<>>, <<>>, <<>>)
    /\ contentOrigin = NoOrigin
    /\ decryptResult = <<>>
    /\ decryptCall = NoDecryptCall
    /\ decryptUi = DecryptUi(TRUE, "")
    /\ lastDecryption = NoDecryption
    /\ \E copy \in {"part_001", "part_002"} :
           walletDialog = WalletDialog(copy, FALSE, <<>>, <<>>, <<>>, <<>>, <<>>)
    /\ currentWalletInfo = NoWalletInfo
    /\ suggestedFilename = <<>>
    /\ now = Clock(FirstDay)
    /\ WordListsUntouched
    /\ KeyboardUntouched
    /\ AppUntouched

NextFilename ==
    \/ \E backend \in {"ok", "throws", "none"} : ShowWalletLabelDialog(backend)
    \/ \E c \in LabelChars, backend \in {"ok", "throws", "none"} : LabelInput(c, backend)
    \/ \E option \in {MainOption, MainWalletOption, CustomOption},
          backend \in {"ok", "throws", "none"} : TypeChange(option, backend)
    \/ \E c \in CustomTypeChars : CustomTypeInput(c)
    \/ \E answered \in BOOLEAN : CreateAndEncrypt(answered)
    \/ DayPasses

SpecFilename == InitFilename /\ [][NextFilename]_vars

\* The text ends with the given ending.
endsWith(text, ending) ==
    /\ Len(text) >= Len(ending)
    /\ SubSeq(text, Len(text) - Len(ending) + 1, Len(text)) = ending

\* The text without its last n characters.
withoutLast(text, n) == SubSeq(text, 1, Len(text) - n)

\* An encryption with a wallet label has suggested a filename for the wallet
\* the dialog describes.
filenameSuggested ==
    /\ ~walletDialog.open
    /\ suggestedFilename # <<>>
    /\ lastMessage = "Wallet encrypted successfully!"

\* The ending an ISO date and the extension make.
dateAndExtension == <<"_">> \o now.date \o BinExtension

\* C15 (as the specification has it): the suggested filename ends with an
\* ISO date and .bin, all that is before them consists of characters of
\* [A-Za-z0-9_-], and its last part is the wallet type in lower case.
C15_SuggestedFilenameSanitised ==
    filenameSuggested /\ walletDialog.previewedOn = now.date =>
        /\ endsWith(suggestedFilename, dateAndExtension)
        /\ \A i \in 1..(Len(suggestedFilename) - Len(dateAndExtension)) :
               isFilenameChar(suggestedFilename[i])
        /\ endsWith(withoutLast(suggestedFilename, Len(dateAndExtension)),
                    <<"_">> \o sanitize(toLowerCase(walletInfoOf(walletDialog).wallet_type)))

\* C16 (as the specification has it): the filename suggested for saving is
\* the one the dialog showed as its preview on the same day.
C16_PreviewIsSuggestedFilename ==
    filenameSuggested /\ walletDialog.previewedOn = now.date =>
        suggestedFilename = walletDialog.preview

(***************************************************************************)
(* The virtual keyboard on the seed phrase field and the console           *)
(* (SpecKeyboard).  An entry of the console is kept as the place that      *)
(* wrote it and whether it holds characters of the seed phrase.            *)
(***************************************************************************)
LogEntry(site, text) == [site |-> site, secret |-> text # <<>>]

\* words.join(' ')
RECURSIVE joinWords(_)
joinWords(words) ==
    IF words = <<>> THEN <<>>
    ELSE IF Len(words) = 1 THEN words[1]
    ELSE words[1] \o <<" ">> \o joinWords(Tail(words))

\* virtualKeyboard.words[wordIndex] || ''
wordAt(keyboard, wordIndex) ==
    IF wordIndex + 1 \in DOMAIN keyboard.words THEN keyboard.words[wordIndex + 1]
    ELSE <<>>

\* editWord: the keyboard after it.
editWord(keyboard, wordIndex) ==
    [keyboard EXCEPT !.editingWordIndex = wordIndex,
                     !.currentWord = wordAt(keyboard, wordIndex)]

\* editWord: its three console.log calls.
editWordLog(keyboard, wordIndex) ==
    {LogEntry("editWord: word", wordAt(keyboard, wordIndex)),
     LogEntry("editWord: keyboard state",
              joinWords(keyboard.words) \o keyboard.currentWord),
     LogEntry("editWord: edit state", wordAt(keyboard, wordIndex))}

\* words.splice(index, 1)
splice(words, index) ==
    SubSeq(words, 1, index) \o SubSeq(words, index + 2, Len(words))

\* finishEditingWord
finishEditingWord(keyboard) ==
    [keyboard EXCEPT
         !.words = IF keyboard.editingWordIndex >= 0
                   THEN IF trim(keyboard.currentWord) # <<>>
                        THEN [@ EXCEPT ![keyboard.editingWordIndex + 1] =
                                           trim(keyboard.currentWord)]
                        ELSE splice(@, keyboard.editingWordIndex)
                   ELSE IF trim(keyboard.currentWord) # <<>>
                        THEN Append(@, trim(keyboard.currentWord))
                        ELSE @,
         !.editingWordIndex = -1,
         !.currentWord = <<>>]

slice(text) == SubSeq(text, 1, Len(text) - 1)

KeyboardKeys == {"a", "c"}

MaxWordLen == 1

MaxKeyboardWords == 2

keyboardUnchanged ==
    UNCHANGED <<seedVars, lastMessage, cryptoVars, walletVars, wordListVars, appVars>>

\* openVirtualKeyboard('seed-phrase-input')
OpenVirtualKeyboard ==
    /\ ~virtualKeyboard.isOpen
    /\ virtualKeyboard' = VirtualKeyboard(TRUE, <<>>, <<>>, -1)
    /\ consoleLog' = consoleLog \cup {LogEntry("openVirtualKeyboard", <<>>)}
    /\ keyboardUnchanged

\* handleKeyboardInput, a character key
KeyPress(c) ==
    /\ virtualKeyboard.isOpen
    /\ Len(virtualKeyboard.currentWord) < MaxWordLen
    /\ virtualKeyboard.editingWordIndex >= 0
           \/ Len(virtualKeyboard.words) < MaxKeyboardWords
    /\ virtualKeyboard' = [virtualKeyboard EXCEPT !.currentWord = @ \o <<c>>]
    /\ UNCHANGED consoleLog
    /\ keyboardUnchanged

\* handleKeyboardInput('space')
KeySpace ==
    /\ virtualKeyboard.isOpen
    /\ virtualKeyboard' = IF trim(virtualKeyboard.currentWord) # <<>>
                          THEN finishEditingWord(virtualKeyboard)
                          ELSE virtualKeyboard
    /\ UNCHANGED consoleLog
    /\ keyboardUnchanged

\* handleKeyboardInput('backspace'): with nothing typed it takes up the last
\* word through editWord.
KeyBackspace ==
    /\ virtualKeyboard.isOpen
    /\ IF virtualKeyboard.currentWord # <<>>
       THEN /\ virtualKeyboard' = [virtualKeyboard EXCEPT !.currentWord = slice(@)]
            /\ UNCHANGED consoleLog
       ELSE IF virtualKeyboard.editingWordIndex = -1 /\ virtualKeyboard.words # <<>>
       THEN /\ virtualKeyboard' =
                   [editWord(virtualKeyboard, Len(virtualKeyboard.words) - 1)
                        EXCEPT !.currentWord = slice(@)]
            /\ consoleLog' =
                   consoleLog \cup editWordLog(virtualKeyboard,
                                               Len(virtualKeyboard.words) - 1)
       ELSE UNCHANGED <<virtualKeyboard, consoleLog>>
    /\ keyboardUnchanged

\* handleKeyboardInput('clear')
KeyClear ==
    /\ virtualKeyboard.isOpen
    /\ virtualKeyboard' =
           IF virtualKeyboard.editingWordIndex >= 0
           THEN [virtualKeyboard EXCEPT !.currentWord = <<>>]
           ELSE [virtualKeyboard EXCEPT !.words = <<>>, !.currentWord = <<>>]
    /\ UNCHANGED consoleLog
    /\ keyboardUnchanged

\* The click on a word of the display: its console.log, then editWord.
WordClick(index) ==
    /\ virtualKeyboard.isOpen
    /\ index + 1 \in DOMAIN virtualKeyboard.words
    /\ virtualKeyboard' = editWord(virtualKeyboard, index)
    /\ consoleLog' =
           consoleLog \cup {LogEntry("Word clicked", wordAt(virtualKeyboard, index))}
               \cup editWordLog(virtualKeyboard, index)
    /\ keyboardUnchanged

\* confirmKeyboardInput: the words go to the field, whose input event is
\* handled, and the keyboard is closed.
ConfirmKeyboardInput ==
    /\ virtualKeyboard.isOpen
    /\ virtualKeyboard' =
           [(IF trim(virtualKeyboard.currentWord) # <<>>
             THEN finishEditingWord(virtualKeyboard) ELSE virtualKeyboard)
                EXCEPT !.isOpen = FALSE]
    /\ InputEvent(joinWords(virtualKeyboard'.words), virtualKeyboard'.words)
    /\ consoleLog' = consoleLog \cup {LogEntry("validateEncryptForm", <<>>)}
    /\ UNCHANGED <<walletVars, wordListVars, appVars>>

\* closeVirtualKeyboard
CloseVirtualKeyboard ==
    /\ virtualKeyboard.isOpen
    /\ virtualKeyboard' = [virtualKeyboard EXCEPT !.isOpen = FALSE]
    /\ UNCHANGED consoleLog
    /\ keyboardUnchanged

\* seedPhrase.substring(0, 20)
substring20(text) == SubSeq(text, 1, IF Len(text) < 20 THEN Len(text) ELSE 20)

\* generateAddresses (part_001), with a blockchain selected; answered tells
\* whether generate_multi_chain_addresses answered.
GenerateAddresses(answered) ==
    /\ IF trim(seedInput) = <<>>
       THEN /\ lastMessage' = "Please enter a valid seed phrase first"
            /\ UNCHANGED consoleLog
       ELSE IF ~tauriAvailable
       THEN /\ lastMessage' = "Tauri API not available"
            /\ consoleLog' = consoleLog \cup {LogEntry("tauriAPI object", <<>>)}
       ELSE /\ lastMessage' = IF answered THEN "Successfully generated addresses"
                              ELSE "Failed to generate addresses"
            /\ consoleLog' =
                   consoleLog \cup {LogEntry("Generating addresses for blockchains", <<>>),
                                    LogEntry("Using seed phrase",
                                             substring20(trim(seedInput)))}
    /\ UNCHANGED <<seedVars, cryptoVars, walletVars, wordListVars, virtualKeyboard,
                   appVars>>

InitKeyboard ==
    /\ entry = "validateSeedPhrase"
    /\ seedInput = <<>>
    /\ typed = <<>>
    /\ windowBip39Words = Loaded(Bip39Excerpt)
    /\ bip39Fetch = "loaded"
    /\ validationStatus = Status(TRUE, NoResult)
    /\ structureResult = NoResult
    /\ pendingRetries = 0
    /\ lastFormat = NoFormat
    /\ lastMessage = "none"
    /\ FormsUntouched
    /\ SideUntouched

NextKeyboard ==
    \/ OpenVirtualKeyboard
    \/ \E c \in KeyboardKeys : KeyPress(c)
    \/ KeySpace
    \/ KeyBackspace
    \/ KeyClear
    \/ \E index \in 0..(MaxKeyboardWords - 1) : WordClick(index)
    \/ ConfirmKeyboardInput
    \/ CloseVirtualKeyboard
    \/ \E answered \in BOOLEAN : GenerateAddresses(answered)

SpecKeyboard == InitKeyboard /\ [][NextKeyboard]_vars

\* C17 (as the specification has it): no entry of the console holds
\* characters of the seed phrase.
C17_NoSecretLogged ==
    \A logged \in consoleLog : ~logged.secret

(***************************************************************************)
(* Repeated attempts (SpecAttempts): one form, filled in, and up to        *)
(* MaxAttempts encryptions, so that an attempt can fail after another has  *)
(* shown its result.                                                       *)
(***************************************************************************)
MaxAttempts == 2

PerformEncryptionAgain == performEncryptionWithin(MaxAttempts)

PerformEncryptionWithWalletLabelAgain(walletInfo) ==
    performEncryptionWithWalletLabelWithin(walletInfo, MaxAttempts)

InitAttempts ==
    /\ InitCrypto
    /\ tauriAvailable
    /\ seedInput = <<" ">> \o Mnemonic12 \o <<"\n">>
    /\ encryptForm = EncryptForm(<<" ", "p">>, <<" ", "p">>, <<>>, <<>>, FALSE, "")

NextAttempts ==
    \/ \E tabName \in {"encrypt", "decrypt"} : SwitchTab(tabName)
    \/ PerformEncryptionAgain
    \/ \E draw \in RandomDraws : EncryptReturns(draw)
    \/ EncryptFails
    \/ \E walletInfo \in WalletInfos : PerformEncryptionWithWalletLabelAgain(walletInfo)
    \/ \E draw \in RandomDraws : WalletEncryptReturns(draw)
    \/ WalletEncryptFails
    \/ \E kind \in PasteKinds : PasteResult(kind)
    \/ \E spot \in TamperSpots, delta \in TamperDeltas : PasteTampered(spot, delta)
    \/ \E content \in ForeignContents : PasteForeign(content)
    \/ \E choice \in DecryptCredentials : EnterCredentials(choice)
    \/ PerformDecryption
    \/ DecryptReturns

SpecAttempts == InitAttempts /\ [][NextAttempts]_vars

\* An encryption command has failed in this step.
encryptionFails ==
    /\ \/ encryptCall.pending /\ ~encryptCall'.pending
       \/ walletCall.pending /\ ~walletCall'.pending
    /\ lastMessage' = "Encryption failed"

\* A decryption command has failed in this step.
decryptionFails ==
    /\ decryptCall.pending /\ ~decryptCall'.pending
    /\ ~lastDecryption'.response.ok

\* C18: when an encryption or decryption command fails, the failure is shown
\* as the status of its tab and the result field of the tab is empty
\* afterwards, whatever it showed before.
C18_FailureShownAndResultCleared ==
    [][/\ encryptionFails =>
              encryptResult' = <<>> /\ encryptUi'.status = "Encryption failed"
       /\ decryptionFails =>
              decryptResult' = <<>> /\ decryptUi'.status = "Decryption failed"]_vars

\* An encryption failed after another had shown its result, and so did a
\* decryption: both fields are empty and both tabs show the failure.
C18_Witness ==
    /\ encryptions = 2
    /\ encryptUi.status = "Encryption failed"
    /\ encryptResult = <<>>
    /\ lastDecryption.done
    /\ lastDecryption.origin.kind = "produced"
    /\ ~lastDecryption.response.ok
    /\ decryptUi.status = "Decryption failed"
    /\ decryptResult = <<>>

(***************************************************************************)
(* The word lists of the keyboard module (SpecWordLists): loadWordLists,   *)
(* the interval that calls it again, and main.js's own fetch.              *)
(***************************************************************************)
maxRetries == 5

\* window.xWords && window.xWords.length > 0
windowHas(list) == list.defined /\ Len(list.words) > 0

\* loadWordLists: what it takes over from window, and the fetches it starts.
loadWordLists ==
    /\ keyboardLists' =
           KeyboardLists(IF windowHas(windowBip39Words) THEN windowBip39Words.words
                         ELSE keyboardLists.bip39Words,
                         IF windowHas(windowEffWords) THEN windowEffWords.words
                         ELSE keyboardLists.effWords)
    /\ listFetches' =
           ListFetches(IF windowHas(windowBip39Words) THEN listFetches.bip39
                       ELSE listFetches.bip39 + 1,
                       IF windowHas(windowEffWords) THEN listFetches.eff
                       ELSE listFetches.eff + 1)

wordListsUnchanged ==
    UNCHANGED <<entry, seedInput, typed, validationStatus, structureResult,
                pendingRetries, lastFormat, lastMessage, cryptoVars, walletVars,
                keyboardVars, appVars>>

\* init of the keyboard module: loadWordLists, and the interval is started.
KeyboardInit ==
    /\ retryCount = WordLoadCheck(0, FALSE)
    /\ loadWordLists
    /\ retryCount' = WordLoadCheck(0, TRUE)
    /\ UNCHANGED <<windowBip39Words, bip39Fetch, windowEffWords>>
    /\ wordListsUnchanged

\* The interval fires: loadWordLists again while a list is empty and
\* retryCount is below maxRetries, clearInterval otherwise.
WordLoadCheckFires ==
    /\ retryCount.running
    /\ IF /\ keyboardLists.bip39Words = <<>> \/ keyboardLists.effWords = <<>>
          /\ retryCount.count + 1 < maxRetries
       THEN /\ loadWordLists
            /\ retryCount' = WordLoadCheck(retryCount.count + 1, TRUE)
       ELSE /\ retryCount' = WordLoadCheck(retryCount.count + 1, FALSE)
            /\ UNCHANGED <<keyboardLists, listFetches>>
    /\ UNCHANGED <<windowBip39Words, bip39Fetch, windowEffWords>>
    /\ wordListsUnchanged

\* A fetch of bip39-words.json by the keyboard module answers.
KeyboardBip39FetchSucceeds ==
    /\ listFetches.bip39 > 0
    /\ listFetches' = [listFetches EXCEPT !.bip39 = @ - 1]
    /\ keyboardLists' = [keyboardLists EXCEPT !.bip39Words = Bip39Excerpt]
    /\ windowBip39Words' = Loaded(Bip39Excerpt)
    /\ UNCHANGED <<bip39Fetch, windowEffWords, retryCount>>
    /\ wordListsUnchanged

\* A fetch of bip39-words.json by the keyboard module fails: catch empties
\* the module's list.
KeyboardBip39FetchFails ==
    /\ listFetches.bip39 > 0
    /\ listFetches' = [listFetches EXCEPT !.bip39 = @ - 1]
    /\ keyboardLists' = [keyboardLists EXCEPT !.bip39Words = <<>>]
    /\ UNCHANGED <<windowBip39Words, bip39Fetch, windowEffWords, retryCount>>
    /\ wordListsUnchanged

\* A fetch of eff-wordlist.json answers.
EffFetchSucceeds ==
    /\ listFetches.eff > 0
    /\ listFetches' = [listFetches EXCEPT !.eff = @ - 1]
    /\ keyboardLists' = [keyboardLists EXCEPT !.effWords = EffExcerpt]
    /\ windowEffWords' = Loaded(EffExcerpt)
    /\ UNCHANGED <<windowBip39Words, bip39Fetch, retryCount>>
    /\ wordListsUnchanged

\* A fetch of eff-wordlist.json fails: catch empties the module's list.
EffFetchFails ==
    /\ listFetches.eff > 0
    /\ listFetches' = [listFetches EXCEPT !.eff = @ - 1]
    /\ keyboardLists' = [keyboardLists EXCEPT !.effWords = <<>>]
    /\ UNCHANGED <<windowBip39Words, bip39Fetch, windowEffWords, retryCount>>
    /\ wordListsUnchanged

NextWordLists ==
    \/ KeyboardInit
    \/ WordLoadCheckFires
    \/ KeyboardBip39FetchSucceeds
    \/ KeyboardBip39FetchFails
    \/ EffFetchSucceeds
    \/ EffFetchFails
    \/ FetchSucceeds(Bip39Excerpt)
    \/ FetchFails

\* Both modules are constructed; nothing has been fetched yet.
InitWordLists ==
    /\ InitValidation
    /\ entry = "validateSeedPhrase"

SpecWordLists == InitWordLists /\ [][NextWordLists]_vars

\* C19 (as the specification has it): a word list that is loaded stays as it
\* is, in the keyboard module and on window.
C19_WordListsImmutableAfterLoad ==
    [][/\ keyboardLists.bip39Words # <<>> =>
              keyboardLists'.bip39Words = keyboardLists.bip39Words
       /\ keyboardLists.effWords # <<>> =>
              keyboardLists'.effWords = keyboardLists.effWords
       /\ windowHas(windowBip39Words) => windowBip39Words' = windowBip39Words
       /\ windowHas(windowEffWords) => windowEffWords' = windowEffWords]_vars

(***************************************************************************)
(* C20: what a decryption needs before it is started.                      *)
(***************************************************************************)
\* The form a started decryption was started from has this field filled in.
suppliedToDecryption(field) == trim(field) # <<>>

PollInterval == 100

\* setTimeout(..., 10000)
TauriTimeout == 10000

\* The time up to which the start is followed.
MaxElapsed == 10200

\* An initializeApp that never takes itself for done.
neverSkips(appInitialized) == FALSE

\* initializeApp: if (appInitialized) return
initializeAppSkips(appInitialized) == appInitialized

\* A timeout that gives up when there is no Tauri API.
initialisesOnlyWithTauri(tauri) == tauri

\* The callback of setTimeout calls initializeApp whether window.__TAURI__
\* is there or not.
timeoutInitialises(tauri) == TRUE

\* initializeApp, called with the timers as its caller left them:
\* initializeTauri, checkNetworkStatusOnStartup up to the command it awaits,
\* setupEventListeners, validateForms, initializeSecurityReminders.
initializeApp(timers) ==
    IF initializeAppSkips(timers.appInitialized)
    THEN /\ startup' = timers
         /\ UNCHANGED <<tauriAvailable, network, encryptUi, decryptUi>>
    ELSE /\ startup' = [timers EXCEPT !.appInitialized = TRUE,
                                      !.initialized = @ + 1]
         /\ tauriAvailable' = windowTauri
         /\ network' = IF windowTauri THEN [network EXCEPT !.check = "pending"]
                       ELSE network
         /\ validateForms(seedInput)

startupUnchanged ==
    UNCHANGED <<seedVars, lastMessage, currentTab, encryptForm, encryptResult,
                encryptOrigin, encryptCall, walletCall, encryptions, decryptForm,
                contentOrigin, decryptResult, decryptCall, lastDecryption,
                walletVars, wordListVars, keyboardVars, buttonVars, saveVars,
                clipboardVars, targetVars>>

\* The webview makes window.__TAURI__ available.
TauriInjected ==
    /\ ~windowTauri
    /\ windowTauri' = TRUE
    /\ UNCHANGED <<startup, network, tauriAvailable, encryptUi, decryptUi>>
    /\ startupUnchanged

timerDue ==
    \/ startup.checkInterval /\ startup.polledAt < startup.elapsed
    \/ startup.timeoutPending /\ startup.elapsed >= TauriTimeout

\* Time goes on by one period of the interval.
Tick ==
    /\ ~timerDue
    /\ startup.elapsed < MaxElapsed
    /\ startup' = [startup EXCEPT !.elapsed = @ + PollInterval]
    /\ UNCHANGED <<windowTauri, network, tauriAvailable, encryptUi, decryptUi>>
    /\ startupUnchanged

\* The callback of setInterval.
PollFires ==
    /\ startup.checkInterval
    /\ startup.polledAt < startup.elapsed
    /\ IF windowTauri
       THEN initializeApp([startup EXCEPT !.polledAt = startup.elapsed,
                                          !.checkInterval = FALSE])
       ELSE /\ startup' = [startup EXCEPT !.polledAt = startup.elapsed]
            /\ UNCHANGED <<tauriAvailable, network, encryptUi, decryptUi>>
    /\ UNCHANGED windowTauri
    /\ startupUnchanged

\* The callback of setTimeout.
TimeoutFires ==
    /\ startup.timeoutPending
    /\ startup.elapsed >= TauriTimeout
    /\ IF timeoutInitialises(windowTauri)
       THEN initializeApp([startup EXCEPT !.timeoutPending = FALSE,
                                          !.checkInterval = FALSE])
       ELSE /\ startup' = [startup EXCEPT !.timeoutPending = FALSE,
                                          !.checkInterval = FALSE]
            /\ UNCHANGED <<tauriAvailable, network, encryptUi, decryptUi>>
    /\ UNCHANGED windowTauri
    /\ startupUnchanged

\* checkNetworkStatusOnStartup after check_network_status has answered, or
\* has thrown: the warning is shown, or enableOfflineMode.
NetworkStatusReturns(answered) ==
    /\ network.check = "pending"
    /\ network' =
           IF answered /\ network.connected
           THEN [network EXCEPT !.check = "done", !.warningShown = TRUE,
                                !.warned = TRUE]
           ELSE [network EXCEPT !.check = "done", !.isOfflineMode = TRUE]
    /\ UNCHANGED <<windowTauri, startup, tauriAvailable, encryptUi, decryptUi>>
    /\ startupUnchanged

\* The machine goes online or offline.
NetworkChanges ==
    /\ network' = [network EXCEPT !.connected = ~@]
    /\ UNCHANGED <<windowTauri, startup, tauriAvailable, encryptUi, decryptUi>>
    /\ startupUnchanged

\* dismissNetworkWarning
DismissNetworkWarning ==
    /\ network.warningShown
    /\ network' = [network EXCEPT !.warningShown = FALSE]
    /\ UNCHANGED <<windowTauri, startup, tauriAvailable, encryptUi, decryptUi>>
    /\ startupUnchanged

\* The module has been evaluated: tauriAPI is {} and waitForTauri has run.
InitStartup ==
    /\ entry = "validateSeedPhrase"
    /\ seedInput = <<>>
    /\ typed = <<>>
    /\ windowBip39Words = Undefined
    /\ bip39Fetch = "pending"
    /\ validationStatus = Status(TRUE, NoResult)
    /\ structureResult = NoResult
    /\ pendingRetries = 0
    /\ lastFormat = NoFormat
    /\ lastMessage = "none"
    /\ tauriAvailable = FALSE
    /\ currentTab = "encrypt"
    /\ encryptForm = EncryptForm(<<>>, <<>>, <<>>, <<>>, FALSE, "")
    /\ encryptResult = <<>>
    /\ encryptOrigin = NoOrigin
    /\ encryptCall = NoEncryptCall
    /\ walletCall = NoEncryptCall
    /\ encryptUi = EncryptUi(TRUE, TRUE, TRUE, "Save to File", "")
    /\ encryptions = 0
    /\ decryptForm = DecryptForm(<<>>, <<>>, <<>>)
    /\ contentOrigin = NoOrigin
    /\ decryptResult = <<>>
    /\ decryptCall = NoDecryptCall
    /\ decryptUi = DecryptUi(TRUE, "")
    /\ lastDecryption = NoDecryption
    /\ SideUntouched

NextStartup ==
    \/ TauriInjected
    \/ Tick
    \/ PollFires
    \/ TimeoutFires
    \/ \E answered \in BOOLEAN : NetworkStatusReturns(answered)
    \/ NetworkChanges
    \/ DismissNetworkWarning

SpecStartup == InitStartup /\ [][NextStartup]_vars

\* C21 (as the specification has it): whenever the network is connected
\* while the app runs and no check is awaited, the network warning is shown
\* or has been shown; and offline mode is on only while there is no
\* connection.
C21_WarnedWheneverConnected ==
    /\ startup.appInitialized /\ network.check # "pending" /\ network.connected
           => network.warned
    /\ network.isOfflineMode => ~network.connected

\* C22: the body of initializeApp is executed at most once, however the
\* interval, the timeout and the arrival of the Tauri API interleave.
C22_InitializedAtMostOnce == startup.initialized <= 1

\* The interval found the Tauri API and initialised the app; later the
\* timeout called initializeApp again.
C22_Witness ==
    /\ startup.initialized = 1
    /\ ~startup.timeoutPending
    /\ startup.polledAt < TauriTimeout
    /\ windowTauri
    /\ tauriAvailable

\* C23: once ten seconds have passed since the start, initializeApp has run
\* and the interval has been cleared, with or without the Tauri API.
C23_InitializedWithinTimeout ==
    startup.elapsed > TauriTimeout =>
        /\ startup.appInitialized
        /\ startup.initialized >= 1
        /\ ~startup.checkInterval

\* Ten seconds have passed, the Tauri API never came, and the app is
\* initialised.
C23_Witness ==
    /\ startup.elapsed > TauriTimeout
    /\ ~windowTauri
    /\ startup.appInitialized
    /\ ~startup.checkInterval

(***************************************************************************)
(* The two forms while commands are in flight (SpecForms): every field     *)
(* can be edited and every enabled button clicked at any moment.  The      *)
(* commands are counted; what they are sent and what they answer is not    *)
(* followed here.                                                          *)
(***************************************************************************)
\* What a field is set to: nothing, or a text.
FormTexts == {<<>>, <<"p">>}

\* How many commands of one kind are followed at a time.
MaxInFlight == 2

\* The text a successful encryption puts into encrypt-result.
SomeContainer == <<"Q", "Q", "=", "=">>

\* A finally that leaves the button as it is.
disabledKept(disabled) == disabled

\* finally of performEncryption, performEncryptionWithWalletLabel and
\* performDecryption: disabled = false
disabledByFinally(disabled) == FALSE

formsUnchanged ==
    UNCHANGED <<seedVars, tauriAvailable, currentTab, encryptOrigin, encryptCall,
                walletCall, encryptions, contentOrigin, decryptCall, lastDecryption,
                walletVars, wordListVars, keyboardVars, startupVars, saveVars,
                clipboardVars, targetVars>>

\* An input event on a field of the encrypt tab: validateForms.
EncryptFieldInput(field, text) ==
    /\ currentTab = "encrypt"
    /\ encryptForm[field] # text
    /\ encryptForm' = [encryptForm EXCEPT ![field] = text]
    /\ encryptUi' = validateEncryptForm(seedInput, encryptForm', encryptResult, encryptUi)
    /\ UNCHANGED <<lastMessage, encryptResult, decryptForm, decryptResult, decryptUi,
                   buttonVars>>
    /\ formsUnchanged

\* An input event on the seed phrase field.
SeedFieldInput(text) ==
    /\ currentTab = "encrypt"
    /\ seedInput # text
    /\ InputEvent(text, IF text = <<>> THEN <<>> ELSE <<text>>)
    /\ UNCHANGED sideVars

\* An input event on a field of the decrypt tab: validateForms.
DecryptFieldInput(field, text) ==
    /\ currentTab = "decrypt"
    /\ decryptForm[field] # text
    /\ decryptForm' = [decryptForm EXCEPT ![field] = text]
    /\ decryptUi' = validateDecryptForm(decryptForm', decryptUi)
    /\ UNCHANGED <<lastMessage, encryptForm, encryptResult, encryptUi, decryptResult,
                   buttonVars>>
    /\ formsUnchanged

\* A click on encrypt-btn: performEncryption, up to the command it awaits.
ClickEncrypt ==
    /\ currentTab = "encrypt"
    /\ ~encryptUi.btnDisabled
    /\ IF ~tauriAvailable
       THEN /\ lastMessage' = "Tauri API not available"
            /\ UNCHANGED <<encryptUi, buttonVars>>
       ELSE IF getValue(seedInput) = <<>> \/ getValue(encryptForm.passphrase1) = <<>>
       THEN /\ lastMessage' = "Please fill all required fields"
            /\ UNCHANGED <<encryptUi, buttonVars>>
       ELSE /\ inFlight.encrypt < MaxInFlight
            /\ inFlight' = [inFlight EXCEPT !.encrypt = @ + 1]
            /\ buttonText' = [buttonText EXCEPT !.encrypt = "Encrypting..."]
            /\ encryptUi' = [encryptUi EXCEPT !.btnDisabled = TRUE,
                                              !.status = "Encrypting seed phrase..."]
            /\ UNCHANGED lastMessage
    /\ UNCHANGED <<encryptForm, encryptResult, decryptForm, decryptResult, decryptUi>>
    /\ formsUnchanged

\* performEncryption after its command has answered or failed: try or
\* catch, then finally.
EncryptSettles(answered) ==
    /\ inFlight.encrypt > 0
    /\ inFlight' = [inFlight EXCEPT !.encrypt = @ - 1]
    /\ buttonText' = [buttonText EXCEPT !.encrypt = RestingText.encrypt]
    /\ encryptResult' = IF answered THEN SomeContainer
                        ELSE encryptResultAfterFailure(encryptResult)
    /\ encryptUi' =
           IF answered
           THEN [encryptUi EXCEPT !.btnDisabled = disabledByFinally(@),
                                  !.saveDisabled = FALSE,
                                  !.saveLabel = "Save to File",
                                  !.status = "Encryption completed successfully"]
           ELSE [encryptUi EXCEPT !.btnDisabled = disabledByFinally(@),
                                  !.status = "Encryption failed"]
    /\ lastMessage' = IF answered THEN "Seed phrase encrypted successfully!"
                      ELSE "Encryption failed"
    /\ UNCHANGED <<encryptForm, decryptForm, decryptResult, decryptUi>>
    /\ formsUnchanged

\* The wallet label dialog, opened with encrypt-with-wallet-btn, is confirmed:
\* performEncryptionWithWalletLabel, up to the command it awaits.
ClickEncryptWithWallet ==
    /\ currentTab = "encrypt"
    /\ ~encryptUi.walletBtnDisabled
    /\ IF ~tauriAvailable
       THEN /\ lastMessage' = "Tauri API not available"
            /\ UNCHANGED <<encryptUi, buttonVars>>
       ELSE IF getValue(seedInput) = <<>> \/ getValue(encryptForm.passphrase1) = <<>>
       THEN /\ lastMessage' = "Please fill all required fields"
            /\ UNCHANGED <<encryptUi, buttonVars>>
       ELSE /\ inFlight.wallet < MaxInFlight
            /\ inFlight' = [inFlight EXCEPT !.wallet = @ + 1]
            /\ buttonText' = [buttonText EXCEPT !.wallet = "Encrypting with Label..."]
            /\ encryptUi' =
                   [encryptUi EXCEPT
                        !.walletBtnDisabled = TRUE,
                        !.status = "Encrypting seed phrase with wallet label..."]
            /\ UNCHANGED lastMessage
    /\ UNCHANGED <<encryptForm, encryptResult, decryptForm, decryptResult, decryptUi>>
    /\ formsUnchanged

\* performEncryptionWithWalletLabel after its command has answered or failed.
WalletEncryptSettles(answered) ==
    /\ inFlight.wallet > 0
    /\ inFlight' = [inFlight EXCEPT !.wallet = @ - 1]
    /\ buttonText' = [buttonText EXCEPT !.wallet = RestingText.wallet]
    /\ encryptResult' = IF answered THEN SomeContainer
                        ELSE encryptResultAfterFailure(encryptResult)
    /\ encryptUi' =
           IF answered
           THEN [encryptUi EXCEPT
                     !.walletBtnDisabled = disabledByFinally(@),
                     !.saveDisabled = FALSE,
                     !.status = "Encryption with wallet label completed successfully"]
           ELSE [encryptUi EXCEPT !.walletBtnDisabled = disabledByFinally(@),
                                  !.status = "Encryption failed"]
    /\ lastMessage' = IF answered THEN "Wallet encrypted successfully!"
                      ELSE "Encryption failed"
    /\ UNCHANGED <<encryptForm, decryptForm, decryptResult, decryptUi>>
    /\ formsUnchanged

\* A click on decrypt-btn: performDecryption, up to the command it awaits.
ClickDecrypt ==
    /\ currentTab = "decrypt"
    /\ ~decryptUi.btnDisabled
    /\ IF ~tauriAvailable
       THEN /\ lastMessage' = "Tauri API not available"
            /\ UNCHANGED <<decryptUi, buttonVars>>
       ELSE IF getValue(decryptForm.content) = <<>>
                   \/ getValue(decryptForm.passphrase) = <<>>
       THEN /\ lastMessage' = "Please fill all required fields"
            /\ UNCHANGED <<decryptUi, buttonVars>>
       ELSE /\ inFlight.decrypt < MaxInFlight
            /\ inFlight' = [inFlight EXCEPT !.decrypt = @ + 1]
            /\ buttonText' = [buttonText EXCEPT !.decrypt = "Decrypting..."]
            /\ decryptUi' = [decryptUi EXCEPT !.btnDisabled = TRUE,
                                              !.status = "Decrypting content..."]
            /\ UNCHANGED lastMessage
    /\ UNCHANGED <<encryptForm, encryptResult, encryptUi, decryptForm, decryptResult>>
    /\ formsUnchanged

\* performDecryption after its command has answered or failed.
DecryptSettles(answered) ==
    /\ inFlight.decrypt > 0
    /\ inFlight' = [inFlight EXCEPT !.decrypt = @ - 1]
    /\ buttonText' = [buttonText EXCEPT !.decrypt = RestingText.decrypt]
    /\ decryptResult' = IF answered THEN act ELSE resultAfterFailure(decryptResult)
    /\ decryptUi' =
           [decryptUi EXCEPT !.btnDisabled = disabledByFinally(@),
                             !.status = IF answered
                                        THEN "Decryption completed successfully"
                                        ELSE "Decryption failed"]
    /\ lastMessage' = IF answered THEN "Content decrypted successfully!"
                      ELSE "Decryption failed"
    /\ UNCHANGED <<encryptForm, encryptResult, encryptUi, decryptForm>>
    /\ formsUnchanged

\* The app is initialised, the word list is loaded and the forms are empty.
InitForms == InitKeyboard

\* The tab is switched between two pieces of work, not in the middle of
\* one: the fields are empty and nothing is in flight.
SwitchTabAtRest(tabName) ==
    /\ seedInput = <<>>
    /\ encryptForm = EncryptForm(<<>>, <<>>, <<>>, <<>>, FALSE, "")
    /\ decryptForm = DecryptForm(<<>>, <<>>, <<>>)
    /\ inFlight = InFlight(0, 0, 0)
    /\ SwitchTab(tabName)

NextForms ==
    \/ \E tabName \in {"encrypt", "decrypt"} : SwitchTabAtRest(tabName)
    \/ \E text \in {<<>>, act} : SeedFieldInput(text)
    \/ \E field \in {"passphrase1", "passphrase2", "password1", "password2"},
          text \in FormTexts : EncryptFieldInput(field, text)
    \/ \E field \in {"content", "passphrase"}, text \in FormTexts :
           DecryptFieldInput(field, text)
    \/ ClickEncrypt
    \/ \E answered \in BOOLEAN : EncryptSettles(answered)
    \/ ClickEncryptWithWallet
    \/ \E answered \in BOOLEAN : WalletEncryptSettles(answered)
    \/ ClickDecrypt
    \/ \E answered \in BOOLEAN : DecryptSettles(answered)

SpecForms == InitForms /\ [][NextForms]_vars

\* A command that was sent is answered, or fails, in the end.
SpecFormsFair ==
    /\ SpecForms
    /\ WF_vars(\E answered \in BOOLEAN : EncryptSettles(answered))
    /\ WF_vars(\E answered \in BOOLEAN : WalletEncryptSettles(answered))
    /\ WF_vars(\E answered \in BOOLEAN : DecryptSettles(answered))

\* C24 (as the specification has it): while a command is in flight its
\* button is disabled, and no more than one command of a kind is in flight.
C24_ButtonDisabledWhileInFlight ==
    /\ inFlight.encrypt > 0 => encryptUi.btnDisabled
    /\ inFlight.decrypt > 0 => decryptUi.btnDisabled
    /\ inFlight.encrypt <= 1
    /\ inFlight.decrypt <= 1

\* C25: a button that an attempt has disabled is enabled again, with the
\* text it had, once the command has answered or failed.
C25_ButtonRestoredAfterAttempt ==
    /\ (inFlight.encrypt > 0) ~>
           (~encryptUi.btnDisabled /\ buttonText.encrypt = RestingText.encrypt)
    /\ (inFlight.wallet > 0) ~>
           (~encryptUi.walletBtnDisabled /\ buttonText.wallet = RestingText.wallet)
    /\ (inFlight.decrypt > 0) ~>
           (~decryptUi.btnDisabled /\ buttonText.decrypt = RestingText.decrypt)

\* An encryption has failed and a decryption has succeeded; both buttons are
\* enabled and have their texts again.
C25_Witness ==
    /\ inFlight = InFlight(0, 0, 0)
    /\ encryptUi.status = "Encryption failed"
    /\ ~encryptUi.btnDisabled
    /\ decryptUi.status = "Decryption completed successfully"
    /\ ~decryptUi.btnDisabled
    /\ buttonText = RestingText

\* C26 (as the specification has it): with no encryption in flight, the
\* encrypt button is enabled exactly when the form is valid.
C26_ButtonEnabledIffFormValid ==
    inFlight.encrypt = 0 =>
        (~encryptUi.btnDisabled <=> encryptFormValid(seedInput, encryptForm))

\* C27 (as the specification has it): the save button is enabled only while
\* encrypt-result is not empty.
C27_SaveEnabledOnlyWithResult ==
    ~encryptUi.saveDisabled => encryptResult # <<>>

(***************************************************************************)
(* Saving the encrypted text (SpecSave): encryptions with and without a    *)
(* wallet label, each taken with the answer of its command in one step,    *)
(* and saveEncryptedFile.                                                  *)
(***************************************************************************)
\* 'encrypted_seed_phrase.bin'
DefaultFilename ==
    <<"e", "n", "c", "r", "y", "p", "t", "e", "d", "_", "s", "e", "e", "d", "_",
      "p", "h", "r", "a", "s", "e">> \o BinExtension

\* The wallets the label dialog hands to performEncryptionWithWalletLabel.
LabelledWallets == {WalletInfo(<<"a">>, MainOption), WalletInfo(<<"c">>, CustomOption)}

saveUnchanged ==
    UNCHANGED <<seedVars, tauriAvailable, currentTab, encryptForm, encryptOrigin,
                encryptCall, walletCall, encryptions, decryptVars, walletDialog,
                currentWalletInfo, now, wordListVars, keyboardVars, startupVars,
                buttonVars, clipboardVars, targetVars>>

\* performEncryption with the answer of its command.
EncryptPlain(answered) ==
    /\ ~encryptUi.btnDisabled
    /\ IF ~tauriAvailable
       THEN /\ lastMessage' = "Tauri API not available"
            /\ UNCHANGED <<encryptResult, encryptUi, resultFrom>>
       ELSE IF getValue(seedInput) = <<>> \/ getValue(encryptForm.passphrase1) = <<>>
       THEN /\ lastMessage' = "Please fill all required fields"
            /\ UNCHANGED <<encryptResult, encryptUi, resultFrom>>
       ELSE IF answered
       THEN /\ encryptResult' = SomeContainer
            /\ resultFrom' = "performEncryption"
            /\ encryptUi' = [encryptUi EXCEPT !.btnDisabled = FALSE,
                                              !.saveDisabled = FALSE,
                                              !.saveLabel = "Save to File",
                                              !.status = "Encryption completed successfully"]
            /\ lastMessage' = "Seed phrase encrypted successfully!"
       ELSE /\ encryptResult' = encryptResultAfterFailure(encryptResult)
            /\ resultFrom' = "none"
            /\ encryptUi' = [encryptUi EXCEPT !.btnDisabled = FALSE,
                                              !.status = "Encryption failed"]
            /\ lastMessage' = "Encryption failed"
    /\ UNCHANGED <<suggestedFilename, saveOffer>>
    /\ saveUnchanged

\* performEncryptionWithWalletLabel (part_001) with the answer of its
\* command: on success updateMainSaveButton stores the suggested filename.
EncryptWithWalletLabel(walletInfo, answered) ==
    /\ ~encryptUi.walletBtnDisabled
    /\ IF ~tauriAvailable
       THEN /\ lastMessage' = "Tauri API not available"
            /\ UNCHANGED <<encryptResult, encryptUi, resultFrom, suggestedFilename>>
       ELSE IF getValue(seedInput) = <<>> \/ getValue(encryptForm.passphrase1) = <<>>
       THEN /\ lastMessage' = "Please fill all required fields"
            /\ UNCHANGED <<encryptResult, encryptUi, resultFrom, suggestedFilename>>
       ELSE IF answered
       THEN /\ encryptResult' = SomeContainer
            /\ resultFrom' = "performEncryptionWithWalletLabel"
            /\ suggestedFilename' = suggestedFilenameOf(walletInfo, now)
            /\ encryptUi' =
                   [encryptUi EXCEPT
                        !.walletBtnDisabled = FALSE,
                        !.saveDisabled = FALSE,
                        !.saveLabel = "Save as wallet file",
                        !.status = "Encryption with wallet label completed successfully"]
            /\ lastMessage' = "Wallet encrypted successfully!"
       ELSE /\ encryptResult' = encryptResultAfterFailure(encryptResult)
            /\ resultFrom' = "none"
            /\ encryptUi' = [encryptUi EXCEPT !.walletBtnDisabled = FALSE,
                                              !.status = "Encryption failed"]
            /\ lastMessage' = "Encryption failed"
            /\ UNCHANGED suggestedFilename
    /\ UNCHANGED saveOffer
    /\ saveUnchanged

\* saveEncryptedFile: the save dialog is shown with its default filename;
\* chosen tells whether the user picked a path or cancelled.
SaveEncryptedFile(chosen) ==
    /\ ~encryptUi.saveDisabled
    /\ IF getValue(encryptResult) = <<>>
       THEN /\ lastMessage' = "No encrypted content to save"
            /\ UNCHANGED <<suggestedFilename, saveOffer>>
       ELSE IF ~tauriAvailable
       THEN /\ lastMessage' = "File operations not available"
            /\ UNCHANGED <<suggestedFilename, saveOffer>>
       ELSE /\ saveOffer' = SaveOffer(TRUE, orElse(suggestedFilename, DefaultFilename),
                                      resultFrom)
            /\ IF chosen
               THEN /\ suggestedFilename' = <<>>
                    /\ lastMessage' = "File saved successfully"
               ELSE UNCHANGED <<suggestedFilename, lastMessage>>
    /\ UNCHANGED <<encryptResult, encryptUi, resultFrom>>
    /\ saveUnchanged

\* The word list is loaded; the form of the encrypt tab has been filled in
\* and validated: a seed phrase, and the same passphrase twice.
InitSave ==
    /\ entry = "validateSeedPhrase"
    /\ seedInput = act
    /\ typed = <<act>>
    /\ windowBip39Words = Loaded(Bip39Excerpt)
    /\ bip39Fetch = "loaded"
    /\ validationStatus =
           validateSeedPhrase(seedInput, windowBip39Words, Status(TRUE, NoResult))
    /\ structureResult = NoResult
    /\ pendingRetries = 0
    /\ lastFormat = NoFormat
    /\ lastMessage = "none"
    /\ tauriAvailable \in BOOLEAN
    /\ currentTab = "encrypt"
    /\ encryptForm = EncryptForm(<<"p">>, <<"p">>, <<>>, <<>>, FALSE, "")
    /\ encryptResult = <<>>
    /\ encryptOrigin = NoOrigin
    /\ encryptCall = NoEncryptCall
    /\ walletCall = NoEncryptCall
    /\ encryptUi = validateEncryptForm(seedInput, encryptForm, encryptResult,
                                       EncryptUi(TRUE, TRUE, TRUE, "Save to File", ""))
    /\ encryptions = 0
    /\ decryptForm = DecryptForm(<<>>, <<>>, <<>>)
    /\ contentOrigin = NoOrigin
    /\ decryptResult = <<>>
    /\ decryptCall = NoDecryptCall
    /\ decryptUi = DecryptUi(TRUE, "")
    /\ lastDecryption = NoDecryption
    /\ SideUntouched

NextSave ==
    \/ \E answered \in BOOLEAN : EncryptPlain(answered)
    \/ \E walletInfo \in LabelledWallets, answered \in BOOLEAN :
           EncryptWithWalletLabel(walletInfo, answered)
    \/ \E chosen \in BOOLEAN : SaveEncryptedFile(chosen)
    \/ DayPasses

SpecSave == InitSave /\ [][NextSave]_vars

\* C28 (as the specification has it): the default filename offered for the
\* result of an encryption without a wallet label is the plain default, never
\* a filename suggested for a wallet.
C28_PlainResultOfferedPlainName ==
    saveOffer.made /\ saveOffer.offeredFor = "performEncryption" =>
        saveOffer.defaultFilename = DefaultFilename

\* ---------------------------------------------------------------------------
\* Copying a seed phrase field to the clipboard: the copy shortcuts, the
\* warning dialog and its two checkboxes, the cleanup timer, the stored
\* settings, and a restart of the app.
\* ---------------------------------------------------------------------------

\* Warning dialogs open at once, and copies counted.
MaxDialogs == 2

MaxCopies == 2

MaxCountdowns == 2

\* autoCleanTimeout: 10 // seconds
autoCleanTimeout == 10

\* let clipboardCleanupTimer = null, and no assignment to it anywhere: the
\* handle that setTimeout returns is dropped.
clipboardCleanupTimer == "null"

\* startClipboardCleanupTimer: clearTimeout of the stored handle if there is
\* one, then updateCountdown at once: the text is set, timeLeft is not yet 0,
\* it is decremented and the next call is due in a second.
startClipboardCleanupTimer(countdowns) ==
    LET kept == IF clipboardCleanupTimer # "null" THEN <<>> ELSE countdowns
    IN  Append(kept, autoCleanTimeout - 1)

\* updateCountdown of every running countdown, a second later: one that finds
\* timeLeft <= 0 calls clearClipboard and ends, the others decrement.
isRunningOn(timeLeft) == timeLeft > 0

decrement(timeLeft) == timeLeft - 1

countdownsAfterSecond(countdowns) ==
    LET running == filterSeq(countdowns, isRunningOn)
    IN  [i \in 1..Len(running) |-> decrement(running[i])]

clearsNow(countdowns) == \E i \in 1..Len(countdowns) : countdowns[i] <= 0

olderBy(age) == IF age < autoCleanTimeout THEN age + 1 ELSE age

\* The two copies of the startup code: main.js, and the one that loads the
\* stored settings when it enables offline mode.
Copies == {"main.js", "part_002"}

\* let clipboardSecuritySettings = {allowCopy: true, neverAllow: false, ...}
declaredNeverAllow == FALSE

\* The proceed handler of a warning dialog tests its own checkbox and nothing
\* else.
proceedCopies(neverAllowChecked, settings) == ~neverAllowChecked

proceedRechecks(neverAllowChecked, settings) ==
    ~neverAllowChecked /\ ~settings.neverAllow

\* saveClipboardSettings: setItem of the whole object; an exception of
\* localStorage is caught and only logged.
saveClipboardSettings(settings, stored, accepted) ==
    IF accepted THEN Stored(TRUE, settings.neverAllow) ELSE stored

\* loadClipboardSettings: the stored object is spread over the current one.
loadClipboardSettings(settings, stored) ==
    IF stored.saved THEN Settings(stored.neverAllow, settings.everSet) ELSE settings

\* Does this start of the app call loadClipboardSettings?
loadsOnStart(copy, offline) == copy = "part_002" /\ offline

clipboardUnchanged ==
    UNCHANGED <<seedVars, cryptoVars, walletVars, wordListVars, keyboardVars,
                startupVars, buttonVars, saveVars, targetVars>>

\* keydown with ctrl or meta on a field holding a seed phrase.
CopyShortcut(key) ==
    /\ IF clipboardSecuritySettings.neverAllow
           THEN /\ clipboardUi' = [clipboardUi EXCEPT
                       !.warning = "Copying seed phrases is disabled for security"]
           ELSE IF key \in {"c", "x"}
                    \* handleSecureCopy: neverAllow is false here
                    THEN /\ clipboardUi.dialogs < MaxDialogs
                         /\ clipboardUi' = [clipboardUi EXCEPT !.dialogs = @ + 1]
                    ELSE UNCHANGED clipboardUi
    /\ UNCHANGED <<clipboardSecuritySettings, localStorage, clipboard, lastMessage>>
    /\ clipboardUnchanged

\* The cancel button of an open warning dialog.
CancelCopy ==
    /\ clipboardUi.dialogs > 0
    /\ clipboardUi' = [clipboardUi EXCEPT !.dialogs = @ - 1]
    /\ UNCHANGED <<clipboardSecuritySettings, localStorage, clipboard, lastMessage>>
    /\ clipboardUnchanged

\* The proceed button of an open warning dialog, with its checkboxes as they
\* are; performSecureCopy when 'never allow' is not checked.
ProceedWithCopy(neverAllowChecked, autoClean, accepted, written) ==
    /\ clipboardUi.dialogs > 0
    /\ IF proceedCopies(neverAllowChecked, clipboardSecuritySettings)
           THEN /\ clipboard.copies < MaxCopies
                /\ UNCHANGED <<clipboardSecuritySettings, localStorage>>
                /\ autoClean /\ written =>
                       Len(clipboardUi.countdowns) < MaxCountdowns
                /\ IF written
                       THEN /\ clipboard' = Clipboard("field", clipboard.copies + 1,
                                                      0, autoClean)
                            /\ lastMessage' = "Content copied to clipboard"
                            /\ clipboardUi' = [clipboardUi EXCEPT
                                   !.dialogs = @ - 1,
                                   !.countdowns =
                                       IF autoClean
                                           THEN startClipboardCleanupTimer(@)
                                           ELSE @]
                       ELSE /\ lastMessage' = "Failed to copy to clipboard"
                            /\ clipboardUi' = [clipboardUi EXCEPT !.dialogs = @ - 1]
                            /\ UNCHANGED clipboard
           ELSE /\ clipboardSecuritySettings' = Settings(TRUE, TRUE)
                /\ localStorage' = saveClipboardSettings(clipboardSecuritySettings',
                                                         localStorage, accepted)
                /\ clipboardUi' = [clipboardUi EXCEPT
                       !.dialogs = @ - 1,
                       !.warning = "Clipboard copying permanently disabled"]
                /\ UNCHANGED <<clipboard, lastMessage>>
    /\ clipboardUnchanged

\* A second passes: every running countdown calls updateCountdown. cleared:
\* whether the writeText('') of clearClipboard is accepted; a rejection is
\* caught and logged.
SecondPasses(cleared) ==
    /\ clipboardUi' = [clipboardUi EXCEPT
           !.countdowns = countdownsAfterSecond(@)]
    /\ IF clearsNow(clipboardUi.countdowns) /\ cleared
           THEN /\ clipboard' = [clipboard EXCEPT !.content = "empty",
                                                  !.age = olderBy(@)]
                /\ lastMessage' = "Clipboard cleared for security"
           ELSE /\ clipboard' = [clipboard EXCEPT !.age = olderBy(@)]
                /\ UNCHANGED lastMessage
    /\ UNCHANGED <<clipboardSecuritySettings, localStorage>>
    /\ clipboardUnchanged

\* The app is closed and started again: the page and its dialogs and timers
\* are gone, the settings object is declared anew, localStorage and the
\* system clipboard stay. offline: the startup check found no connection.
AppRestarts(offline) ==
    /\ clipboardSecuritySettings' =
           IF loadsOnStart(clipboardUi.copy, offline)
               THEN loadClipboardSettings(
                        Settings(declaredNeverAllow, clipboardSecuritySettings.everSet),
                        localStorage)
               ELSE Settings(declaredNeverAllow, clipboardSecuritySettings.everSet)
    /\ clipboardUi' = ClipboardUi(clipboardUi.copy, 0, <<>>, "none")
    /\ lastMessage' = "none"
    /\ UNCHANGED <<localStorage, clipboard>>
    /\ clipboardUnchanged

InitClipboard ==
    /\ entry = "validateSeedPhrase"
    /\ seedInput = <<>>
    /\ typed = <<>>
    /\ windowBip39Words = Loaded(Bip39Excerpt)
    /\ bip39Fetch = "loaded"
    /\ validationStatus = Status(TRUE, NoResult)
    /\ structureResult = NoResult
    /\ pendingRetries = 0
    /\ lastFormat = NoFormat
    /\ lastMessage = "none"
    /\ FormsUntouched
    /\ DialogUntouched /\ WordListsUntouched /\ KeyboardUntouched
    /\ StartupUntouched /\ ButtonsUntouched /\ SaveUntouched /\ TargetUntouched
    /\ clipboardSecuritySettings = Settings(declaredNeverAllow, FALSE)
    /\ localStorage = Stored(FALSE, FALSE)
    /\ \E copy \in Copies : clipboardUi = ClipboardUi(copy, 0, <<>>, "none")
    /\ clipboard = Clipboard("other", 0, 0, FALSE)

NextClipboard ==
    \/ \E key \in {"c", "x", "a"} : CopyShortcut(key)
    \/ CancelCopy
    \/ \E neverAllowChecked \in BOOLEAN, autoClean \in BOOLEAN,
          accepted \in BOOLEAN, written \in BOOLEAN :
           ProceedWithCopy(neverAllowChecked, autoClean, accepted, written)
    \/ \E cleared \in BOOLEAN : SecondPasses(cleared)
    \/ \E offline \in BOOLEAN : AppRestarts(offline)

SpecClipboard == InitClipboard /\ [][NextClipboard]_vars

\* C29 (as the specification has it): while 'never allow copying' is set, no
\* step writes the content of a field to the clipboard.
C29_NoCopyWhileNeverAllow ==
    [][clipboardSecuritySettings.neverAllow =>
           clipboard'.copies = clipboard.copies]_vars

\* C30 (as the specification has it): once 'never allow copying' has been set
\* it stays set, in the settings object and in localStorage, across every
\* later step and start of the app.
C30_NeverAllowIsPermanent ==
    clipboardSecuritySettings.everSet =>
        /\ clipboardSecuritySettings.neverAllow
        /\ localStorage.saved /\ localStorage.neverAllow

SpecClipboardFair ==
    SpecClipboard /\ WF_vars(\E cleared \in BOOLEAN : SecondPasses(cleared))

\* C31 (as the specification has it): at most one countdown of the cleanup
\* timer runs at any time, and content copied with auto-clear selected is
\* not cleared before autoCleanTimeout seconds have passed since its copy.
C31_OneCountdownAtATime ==
    [][/\ Len(clipboardUi'.countdowns) <= 1
       /\ (clipboard.content = "field" /\ clipboard.autoClean
              /\ clipboard'.content = "empty") =>
               clipboard'.age >= autoCleanTimeout]_vars

\* C32 (as the specification has it): after a successful copy with auto-clear
\* selected the clipboard is eventually overwritten with the empty string.
C32_ClipboardEventuallyCleared ==
    (clipboard.content = "field" /\ clipboard.autoClean) ~>
        (clipboard.content = "empty")

\* ---------------------------------------------------------------------------
\* The virtual keyboard opened on a field that already holds a value, in word
\* mode (the seed phrase field) and in password mode (a password field), with
\* either copy of openVirtualKeyboard.
\* ---------------------------------------------------------------------------

MaxTargetLen == 4

KeyboardCopies == {"keyboard.js", "part_002"}

\* The fields a keyboard button points to, and data-password of the button.
TargetFields == {"seed-phrase-input", "password1"}

isPasswordTarget(field) == field = "password1"

SeedTexts == {<<>>, <<"a">>, joinWords(<< <<"a">>, <<"a">> >>)}

\* targetInput.value
targetValue(field) ==
    IF field = "seed-phrase-input" THEN seedInput
    ELSE IF field = "password1" THEN encryptForm.password1
    ELSE <<>>

\* updateCurrentWord of keyboard.js: outside the editing of a word inputText
\* becomes the completed words joined; that of part_002 only derives
\* currentWord.
updateCurrentWord(copy, keyboard, inputText) ==
    IF copy = "keyboard.js" /\ keyboard.editingWordIndex < 0
        THEN joinWords(keyboard.words)
        ELSE inputText

\* inputText when openVirtualKeyboard returns: targetInput.value || '', then
\* (keyboard.js) words = [] and updateCurrentWord().
inputTextAtOpen(copy, value) ==
    IF copy = "keyboard.js"
        THEN updateCurrentWord(copy, VirtualKeyboard(TRUE, <<>>, <<>>, -1), value)
        ELSE value

\* finalText of confirmKeyboardInput.
finalText(target, keyboard) ==
    IF target.copy = "part_002" \/ target.isPasswordMode
        THEN target.inputText
        ELSE joinWords((IF trim(keyboard.currentWord) # <<>>
                        THEN finishEditingWord(keyboard) ELSE keyboard).words)

\* The user types into a field directly; the modal of the keyboard covers the
\* fields while it is open.
TypeIntoSeedField(text) ==
    /\ ~virtualKeyboard.isOpen
    /\ SeedFieldInput(text)

TypeIntoPasswordField(text) ==
    /\ ~virtualKeyboard.isOpen
    /\ EncryptFieldInput("password1", text)

\* A click on the keyboard button of a field: openVirtualKeyboard(targetId,
\* isPassword).
OpenVirtualKeyboardOn(field) ==
    /\ ~virtualKeyboard.isOpen
    /\ virtualKeyboard' = VirtualKeyboard(TRUE, <<>>, <<>>, -1)
    /\ keyboardTarget' =
           KeyboardTarget(keyboardTarget.copy, field, isPasswordTarget(field),
                          inputTextAtOpen(keyboardTarget.copy, targetValue(field)),
                          FALSE, FALSE)
    /\ consoleLog' = IF keyboardTarget.copy = "keyboard.js"
                     THEN consoleLog \cup {LogEntry("openVirtualKeyboard", <<>>)}
                     ELSE consoleLog
    /\ UNCHANGED <<seedVars, lastMessage, cryptoVars, walletVars, wordListVars,
                   startupVars, buttonVars, saveVars, clipboardVars>>

\* handleKeyboardInput with a character key, 'space' or 'clear'.
KeyboardKey(key) ==
    /\ virtualKeyboard.isOpen
    /\ Len(keyboardTarget.inputText) < MaxTargetLen
    /\ Len(virtualKeyboard.currentWord) < MaxWordLen
    /\ Len(virtualKeyboard.words) < MaxKeyboardWords
    /\ IF keyboardTarget.copy = "part_002" \/ keyboardTarget.isPasswordMode
           THEN /\ keyboardTarget' =
                       [keyboardTarget EXCEPT
                            !.keys = TRUE,
                            !.inputText = CASE key = "clear" -> <<>>
                                            [] key = "space" -> @ \o <<" ">>
                                            [] OTHER -> @ \o <<key>>]
                /\ UNCHANGED virtualKeyboard
           ELSE /\ virtualKeyboard' =
                       CASE key = "clear" ->
                                IF virtualKeyboard.editingWordIndex >= 0
                                    THEN [virtualKeyboard EXCEPT !.currentWord = <<>>]
                                    ELSE [virtualKeyboard EXCEPT !.words = <<>>,
                                                                 !.currentWord = <<>>]
                         [] key = "space" ->
                                IF trim(virtualKeyboard.currentWord) # <<>>
                                    THEN finishEditingWord(virtualKeyboard)
                                    ELSE virtualKeyboard
                         [] OTHER ->
                                [virtualKeyboard EXCEPT !.currentWord = @ \o <<key>>]
                /\ keyboardTarget' =
                       [keyboardTarget EXCEPT
                            !.keys = TRUE,
                            !.inputText =
                                IF key = "clear" /\ virtualKeyboard.editingWordIndex < 0
                                    THEN <<>>
                                    ELSE IF key \in {"clear", "space"} THEN @
                                    ELSE updateCurrentWord(keyboardTarget.copy,
                                                           virtualKeyboard', @)]
    /\ UNCHANGED <<consoleLog, seedVars, lastMessage, cryptoVars, walletVars,
                   wordListVars, startupVars, buttonVars, saveVars, clipboardVars>>

\* confirmKeyboardInput: finalText goes to the field, the field's input event
\* is handled, the keyboard is closed.
ConfirmKeyboardOn ==
    /\ virtualKeyboard.isOpen
    /\ LET text == finalText(keyboardTarget, virtualKeyboard)
       IN  /\ virtualKeyboard' =
                  [(IF ~keyboardTarget.isPasswordMode
                        /\ keyboardTarget.copy = "keyboard.js"
                        /\ trim(virtualKeyboard.currentWord) # <<>>
                    THEN finishEditingWord(virtualKeyboard) ELSE virtualKeyboard)
                       EXCEPT !.isOpen = FALSE]
           /\ keyboardTarget' = [keyboardTarget EXCEPT !.confirmed = TRUE]
           /\ IF keyboardTarget.field = "seed-phrase-input"
                  THEN /\ InputEvent(text, splitWords(text))
                       /\ consoleLog' =
                              consoleLog \cup {LogEntry("validateEncryptForm", <<>>)}
                  ELSE /\ encryptForm' = [encryptForm EXCEPT !.password1 = text]
                       /\ encryptUi' = validateEncryptForm(seedInput, encryptForm',
                                                           encryptResult, encryptUi)
                       /\ consoleLog' =
                              consoleLog \cup {LogEntry("validateEncryptForm", <<>>)}
                       /\ UNCHANGED <<seedVars, lastMessage, tauriAvailable, currentTab,
                                      encryptResult, encryptOrigin, encryptCall,
                                      walletCall, encryptions, decryptVars>>
    /\ UNCHANGED <<walletVars, wordListVars, startupVars, buttonVars, saveVars,
                   clipboardVars>>

\* closeVirtualKeyboard, by the close button.
CloseKeyboardOn ==
    /\ virtualKeyboard.isOpen
    /\ virtualKeyboard' = [virtualKeyboard EXCEPT !.isOpen = FALSE]
    /\ keyboardTarget' = [keyboardTarget EXCEPT !.confirmed = FALSE]
    /\ UNCHANGED <<consoleLog, seedVars, lastMessage, cryptoVars, walletVars,
                   wordListVars, startupVars, buttonVars, saveVars, clipboardVars>>

InitTarget ==
    /\ entry = "validateSeedPhrase"
    /\ seedInput = <<>>
    /\ typed = <<>>
    /\ windowBip39Words = Loaded(Bip39Excerpt)
    /\ bip39Fetch = "loaded"
    /\ validationStatus = Status(TRUE, NoResult)
    /\ structureResult = NoResult
    /\ pendingRetries = 0
    /\ lastFormat = NoFormat
    /\ lastMessage = "none"
    /\ FormsUntouched
    /\ DialogUntouched /\ WordListsUntouched /\ KeyboardUntouched
    /\ StartupUntouched /\ ButtonsUntouched /\ SaveUntouched /\ ClipboardUntouched
    /\ \E copy \in KeyboardCopies :
           keyboardTarget = KeyboardTarget(copy, "none", FALSE, <<>>, FALSE, FALSE)

NextTarget ==
    \/ \E text \in SeedTexts : TypeIntoSeedField(text)
    \/ \E text \in FormTexts : TypeIntoPasswordField(text)
    \/ \E field \in TargetFields : OpenVirtualKeyboardOn(field)
    \/ \E key \in {"a", "space", "clear"} : KeyboardKey(key)
    \/ ConfirmKeyboardOn
    \/ CloseKeyboardOn

SpecTarget == InitTarget /\ [][NextTarget]_vars

\* C33 (as the specification has it): the keyboard opened on a field and
\* confirmed with no key pressed in between leaves the value of the field as
\* it was, in password mode and in word mode.
C33_OpenAndConfirmKeepsValue ==
    [][(virtualKeyboard.isOpen /\ ~keyboardTarget.keys /\ keyboardTarget'.confirmed
            /\ ~virtualKeyboard'.isOpen) =>
           /\ seedInput' = seedInput
           /\ encryptForm'.password1 = encryptForm.password1]_vars

==============================================================================
